---- MODULE Spec2Model ----
(***************************************************************************)
(* A model of the geocoding side of web-location-analyzer:                 *)
(*   geo_utils.py          geo_cache, GeocodingStats, save_geo_cache,      *)
(*                         batch_reverse_geocode,                          *)
(*                         single_reverse_geocode_fixed, reverse_geocode   *)
(*   location_analyzer.py  LocationAnalyzer.load_cache / save_cache /      *)
(*                         geocode_points                                  *)
(*                                                                         *)
(* Coordinates are integers counting millionths of a degree, so that       *)
(* rounding to 5 and to 4 decimals is arithmetic on the last digits.       *)
(***************************************************************************)
EXTENDS Integers, Sequences, FiniteSets, TLC

\* ------------------------------------------------------------------ bounds

\* Coordinates handed to one resolve call.
MaxCoords == 2

\* Resolve calls (batch_reverse_geocode or geocode_points) in one behaviour.
MaxCalls == 2

\* Consecutive HTTP 429 answers the provider gives to one lookup.
Max429 == 2

\* Largest batch_size argument a caller passes to batch_reverse_geocode.
MaxBatchArg == 2

\* Largest max_concurrent_requests a caller configures.
MaxConcurrentArg == 2

\* Synchronous reverse_geocode calls in one behaviour.
MaxSyncCalls == 2

\* Threads that call GeocodingStats methods, and the calls they make in all.
MaxThreads == 2

MaxStatOps == 2

\* Largest coordinates_count passed to record_api_call / record_batch_request.
MaxCount == 2

\* ------------------------------------------------------- program constants

\* geo_utils.py:175  batch_size = min(batch_size, 25)
BatchCap == 25

\* ------------------------------------------------------------- coordinates

\* Three coordinates (latitude, longitude) in millionths of a degree:
\*   CoordA = (1.000012, 2.0)   rounds to 1.00001 at 5 decimals, 1.0 at 4
\*   CoordB = (1.000014, 2.0)   rounds to 1.00001 at 5 decimals, 1.0 at 4
\*   CoordC = (1.0, 2.0)        CoordA rounded to 4 decimals
CoordA == <<1000012, 2000000>>

CoordB == <<1000014, 2000000>>

CoordC == <<1000000, 2000000>>

Coords == {CoordA, CoordB, CoordC}

Abs(x) == IF x < 0 THEN -x ELSE x

\* round(x, n) on a value given in millionths; unit = 10 for n = 5 and 100 for
\* n = 4.  Python rounds the decimal value to the nearest multiple, ties to
\* even (no coordinate of Coords is a tie).  The result is the magnitude in
\* millionths.
RoundMag(x, unit) ==
    LET a == Abs(x)
        lo == (a \div unit) * unit
        rem == a - lo
    IN  IF 2 * rem < unit THEN lo
        ELSE IF 2 * rem > unit THEN lo + unit
        ELSE IF (lo \div unit) % 2 = 0 THEN lo ELSE lo + unit

\* Number of decimals str() prints for a float that is a multiple of 1e-6:
\* the shortest repr, at least one decimal ("1.0", "1.00001").
ReprDecimals(mag) ==
    IF mag % 100000 = 0 THEN 1
    ELSE IF mag % 10000 = 0 THEN 2
    ELSE IF mag % 1000 = 0 THEN 3
    ELSE IF mag % 100 = 0 THEN 4
    ELSE IF mag % 10 = 0 THEN 5
    ELSE 6

\* The text of f"{round(x, n)}": sign, magnitude, decimals printed.  round()
\* keeps the sign of a negative value that rounds to zero ("-0.0").
RoundStr(x, unit) ==
    LET m == RoundMag(x, unit)
    IN  <<IF x < 0 THEN "-" ELSE "", m, ReprDecimals(m)>>

\* The text of f"{x:.5f}": always five decimals ("1.00000").
Fixed5Str(x) ==
    <<IF x < 0 THEN "-" ELSE "", RoundMag(x, 10), 5>>

\* key = f"{round(lat, 5)},{round(lon, 5)}"
Key5(c) == <<"", RoundStr(c[1], 10), RoundStr(c[2], 10)>>

\* key_fallback = f"{round(lat, 4)},{round(lon, 4)}"
Key4(c) == <<"", RoundStr(c[1], 100), RoundStr(c[2], 100)>>

\* coord_key = f"{lat:.5f},{lon:.5f}" with cache_precision = 5
CoordKey(c) == <<"", Fixed5Str(c[1]), Fixed5Str(c[2])>>

\* A coordinate rounded to 4 decimals (a caller that keeps 4 decimals).
Round4Coord(c) ==
    <<(IF c[1] < 0 THEN -1 ELSE 1) * RoundMag(c[1], 100),
      (IF c[2] < 0 THEN -1 ELSE 1) * RoundMag(c[2], 100)>>

\* ----------------------------------------------------------- cache entries

\* A cache entry is a JSON value: a result object or a bare boolean.  A result
\* object is a record over the six keys the code reads or writes; a key the
\* object does not have holds Absent.  JSON true / false / null are the
\* strings "true" / "false" / "null".
Absent == "<absent>"

DictEntry(city, state, country, place, place_name, is_water) ==
    [city |-> city, state |-> state, country |-> country, place |-> place,
     place_name |-> place_name, is_water |-> is_water]

\* What the provider knows about a coordinate: one named place per queried
\* coordinate (two coordinates that share a cache key are still answered
\* with their own feature).
PlaceOf(c) ==
    CASE c = CoordA -> "alpha"
      [] c = CoordB -> "beta"
      [] c = CoordC -> "gamma"
      [] OTHER -> "delta"

\* geo_utils.py:251-260  the result built from features[0].properties
SuccessResult(c) ==
    DictEntry("city " \o PlaceOf(c), "state", "country", PlaceOf(c), Absent,
              "false")

\* geo_utils.py:262  no features in a 200 answer
OpenWaterResult ==
    DictEntry("Unknown", "", "", "open water", Absent, "true")

\* geo_utils.py:277, 283, 288  the placeholders of a failed lookup
FailureResult(place) ==
    DictEntry("Unknown", "", "", place, Absent, "true")

FailurePlaces == {"geocoding failed", "timeout", "error", "unknown location"}

IsFailure(e) == e.place \in FailurePlaces

\* geo_utils.py:344 and 355  reverse_geocode's shorter placeholders
ShortResult(place) ==
    DictEntry(Absent, Absent, Absent, place, Absent, "true")

\* dict[key] = value
Put(cache, key, value) ==
    [k \in DOMAIN cache \cup {key} |-> IF k = key THEN value ELSE cache[k]]

EmptyCache == [k \in {} |-> Absent]

\* -------------------------------------------------------------- statistics

\* geo_utils.py:31-41  GeocodingStats.reset
ZeroStats ==
    [cache_hits |-> 0, api_calls |-> 0, errors |-> 0,
     water_cache_hits |-> 0, water_api_calls |-> 0, water_errors |-> 0,
     batch_requests |-> 0, total_coordinates_in_batches |-> 0]

\* geo_utils.py:43-49  record_cache_hit, as one step
RecordCacheHitOf(s, is_water) ==
    IF is_water THEN [s EXCEPT !.water_cache_hits = @ + 1]
    ELSE [s EXCEPT !.cache_hits = @ + 1]

\* geo_utils.py:51-57  record_api_call, as one step
RecordApiCallOf(s, is_water, coordinates_count) ==
    IF is_water THEN [s EXCEPT !.water_api_calls = @ + coordinates_count]
    ELSE [s EXCEPT !.api_calls = @ + coordinates_count]

\* geo_utils.py:59-64  record_batch_request, as one step
RecordBatchRequest(s, coordinates_count) ==
    [s EXCEPT !.batch_requests = @ + 1,
              !.total_coordinates_in_batches = @ + coordinates_count,
              !.api_calls = @ + coordinates_count]

\* geo_utils.py:66-72  record_error, as one step
RecordErrorOf(s, is_water) ==
    IF is_water THEN [s EXCEPT !.water_errors = @ + 1]
    ELSE [s EXCEPT !.errors = @ + 1]

\* The calls the resolvers make, with the default arguments (is_water=False,
\* coordinates_count=1).  A resolver is the only thread that touches the
\* counters while it runs, so each call is one step there.
RecordCacheHit(s) == RecordCacheHitOf(s, FALSE)

RecordApiCall(s) == RecordApiCallOf(s, FALSE, 1)

RecordError(s) == RecordErrorOf(s, FALSE)

\* geo_utils.py:74-92  get_stats
GetStats(s) ==
    [geocoding |->
        [cache_hits |-> s.cache_hits, api_calls |-> s.api_calls,
         errors |-> s.errors,
         total |-> s.cache_hits + s.api_calls + s.errors,
         batch_requests |-> s.batch_requests],
     water_detection |->
        [cache_hits |-> s.water_cache_hits, api_calls |-> s.water_api_calls,
         errors |-> s.water_errors,
         total |-> s.water_cache_hits + s.water_api_calls + s.water_errors]]

\* ------------------------------------------------------------------- state

VARIABLES
    geo_cache,      \* geo_utils.geo_cache: key -> entry
    disk,           \* config/geo_cache.json: key -> entry
    stats,          \* the fields of geo_utils._global_stats
    geocode_cache,  \* LocationAnalyzer.geocode_cache: coord_key -> GeocodeResult
    impl,           \* the resolve call in progress: "batch", "points", "none"
    rpc,            \* its position: "idle", "gather", "delay", "returned"
    call_no,        \* resolve calls started so far
    coordinates,    \* the call's input, a sequence of coordinates
    geoapify_key,   \* whether the caller passed a non-empty geoapify_key
    limit,          \* batch size after the cap / the semaphore's initial value
    uncached,       \* batch_reverse_geocode: uncached_coords
    batch_num,      \* batch_reverse_geocode: index of the batch being gathered
    tasks,          \* the coroutines of the running gather
    results,        \* the call's results mapping
    saves,          \* writes of the cache file attempted by the call
    net,            \* provider requests sent by the call
    prev,           \* the previous resolve call: its input and what it returned
    sync_no,        \* reverse_geocode calls made so far
    last,           \* the last reverse_geocode call: its input and what it did
    written_for,    \* coordinates whose result reverse_geocode wrote to geo_cache
    lock,           \* GeocodingStats.lock: the thread holding it, 0 when free
    th,             \* per thread: the GeocodingStats method it is in
    stat_ops,       \* GeocodingStats method calls started so far
    expected,       \* the counters, had every completed call run alone
    snap,           \* what the last completed get_stats returned
    fpc,            \* cache file round trip: the load or save done last
    disk_before,    \* the cache file before the load of a round trip
    stage_in,       \* pipeline stage under study: the input it is given
    stage_op,       \* the stage that ran on it, with its arguments
    stage_out       \* what the stage returned

syncVars == <<sync_no, last, written_for>>

geoVars ==
    <<geo_cache, disk, stats, geocode_cache, impl, rpc, call_no, coordinates,
      geoapify_key, limit, uncached, batch_num, tasks, results, saves, net,
      prev, syncVars>>

statVars == <<lock, th, stat_ops, expected, snap>>

fileVars == <<fpc, disk_before>>

pipeVars == <<stage_in, stage_op, stage_out>>

\* The variables no resolver touches.
nonGeoVars == <<statVars, fileVars, pipeVars>>

vars == <<geoVars, nonGeoVars>>

NoLookup ==
    [c |-> <<0, 0>>, same |-> FALSE, coarse |-> FALSE, keyed |-> FALSE,
     hits |-> 0, sent |-> 0]

\* Threads calling into the one GeocodingStats object.
Threads == 1..MaxThreads

IdleThread ==
    [pc |-> "idle", op |-> "", is_water |-> FALSE, n |-> 0, step |-> 0,
     tmp |-> 0, view |-> ZeroStats, totals |-> <<0, 0>>]

NoPrev == [impl |-> "none", coordinates |-> <<>>, results |-> <<>>]

\* Inputs: sequences of distinct coordinates, 1 to MaxCoords long.
RECURSIVE SeqsUpTo(_)
SeqsUpTo(n) ==
    IF n = 0 THEN {<<>>}
    ELSE LET shorter == SeqsUpTo(n - 1)
         IN  shorter \cup {Append(s, c) : s \in shorter, c \in Coords}

Range(s) == {s[i] : i \in DOMAIN s}

IsInjective(s) == \A i, j \in DOMAIN s : s[i] = s[j] => i = j

CoordSeqs == {s \in SeqsUpTo(MaxCoords) : Len(s) >= 1 /\ IsInjective(s)}

InitResolvers ==
    /\ geo_cache = EmptyCache
    /\ stats = ZeroStats
    /\ geocode_cache = EmptyCache
    /\ impl = "none"
    /\ rpc = "idle"
    /\ call_no = 0
    /\ coordinates = <<>>
    /\ geoapify_key = TRUE
    /\ limit = 0
    /\ uncached = <<>>
    /\ batch_num = 0
    /\ tasks = <<>>
    /\ results = <<>>
    /\ saves = 0
    /\ net = 0
    /\ prev = NoPrev
    /\ sync_no = 0
    /\ last = NoLookup
    /\ written_for = {}

InitStats ==
    /\ lock = 0
    /\ th = [t \in Threads |-> IdleThread]
    /\ stat_ops = 0
    /\ expected = ZeroStats
    /\ snap = GetStats(ZeroStats)

InitFile ==
    /\ fpc = "none"
    /\ disk_before = EmptyCache

\* No pipeline stage has run.
NoStage == [name |-> "none"]

InitPipe ==
    /\ stage_in = <<>>
    /\ stage_op = NoStage
    /\ stage_out = <<>>

\* No cache file yet (or an empty one), nothing started.
InitAll ==
    disk = EmptyCache /\ InitResolvers /\ InitStats /\ InitFile /\ InitPipe

\* ------------------------------------------- batch_reverse_geocode (async)

\* The event loop runs one coroutine at a time and switches only at an
\* await, so each action below is the code between two suspension points.

Min(a, b) == IF a < b THEN a ELSE b

NoResult == DictEntry(Absent, Absent, Absent, Absent, Absent, Absent)

\* One coroutine of a gather: its coordinate, its position, what it returned,
\* the provider's answers to its requests in order, the backoff delays it
\* slept, and the errors it recorded.
NewTask(c) ==
    [c |-> c, pc |-> "new", result |-> NoResult, hist |-> <<>>,
     sleeps |-> 0, errs |-> 0]

NewTasks(batch) == [i \in 1..Len(batch) |-> NewTask(batch[i])]

\* geo_utils.py:156-161  the cache test of the partition loop: the 5-decimal
\* key, then the 4-decimal key
InCache(cache, c) == Key5(c) \in DOMAIN cache \/ Key4(c) \in DOMAIN cache

CachedEntry(cache, c) ==
    IF Key5(c) \in DOMAIN cache THEN cache[Key5(c)] ELSE cache[Key4(c)]

\* geo_utils.py:175  batch_size = min(batch_size, 25)
CappedBatchSize(batch_size) == Min(batch_size, BatchCap)

\* geo_utils.py:176-177  batches[k - 1]
BatchOf(coords, size, k) ==
    SubSeq(coords, (k - 1) * size + 1, Min(k * size, Len(coords)))

NumBatches(coords, size) == (Len(coords) + size - 1) \div size

\* geo_utils.py:232-243 and 275-279  single_reverse_geocode_fixed from its
\* entry to its first await: the cache double-check on the 5-decimal key,
\* the error result when there is no API key, else the request is sent.
EnterLookup(t, cache, s, has_key) ==
    LET key == Key5(t.c)
    IN  IF key \in DOMAIN cache
        THEN [task |-> [t EXCEPT !.pc = "done", !.result = cache[key]],
              cache |-> cache, stats |-> RecordCacheHit(s), sent |-> 0]
        ELSE IF ~has_key
        THEN [task |-> [t EXCEPT !.pc = "done",
                                 !.result = FailureResult("geocoding failed"),
                                 !.errs = @ + 1],
              cache |-> Put(cache, key, FailureResult("geocoding failed")),
              stats |-> RecordError(s), sent |-> 0]
        ELSE [task |-> [t EXCEPT !.pc = "sent"],
              cache |-> cache, stats |-> s, sent |-> 1]

\* The provider's answers to one request: 200 with a feature, 200 without
\* features, 429, another status, no answer within the timeout, and an
\* exception of the HTTP client.
Responses == {"ok", "empty", "s429", "other", "timeout", "exc"}

Finished(t, result, failed) ==
    [t EXCEPT !.pc = "done", !.result = result,
              !.errs = IF failed THEN @ + 1 ELSE @]

\* geo_utils.py:245-290  single_reverse_geocode_fixed from the answer to its
\* request to its return, or to the asyncio.sleep(1) of the 429 branch
OnResponseRetryCounted(t0, r, cache, s) ==
    LET t == [t0 EXCEPT !.hist = Append(@, r)]
        key == Key5(t.c)
        fail(place) ==
            [task |-> Finished(t, FailureResult(place), TRUE),
             cache |-> Put(cache, key, FailureResult(place)),
             stats |-> RecordError(s)]
    IN  CASE r = "ok" ->
               [task |-> Finished(t, SuccessResult(t.c), FALSE),
                cache |-> Put(cache, key, SuccessResult(t.c)),
                stats |-> RecordApiCall(s)]
          [] r = "empty" ->
               [task |-> Finished(t, OpenWaterResult, FALSE),
                cache |-> Put(cache, key, OpenWaterResult),
                stats |-> RecordApiCall(s)]
          [] r = "s429" ->
               [task |-> [t EXCEPT !.pc = "sleeping", !.sleeps = @ + 1,
                                   !.errs = @ + 1],
                cache |-> cache, stats |-> RecordError(s)]
          [] r = "other" -> fail("geocoding failed")
          [] r = "timeout" -> fail("timeout")
          [] OTHER -> fail("error")

OnResponse(t0, r, cache, s) ==
    LET t == [t0 EXCEPT !.hist = Append(@, r)]
        key == Key5(t.c)
        fail(place) ==
            [task |-> Finished(t, FailureResult(place), TRUE),
             cache |-> Put(cache, key, FailureResult(place)),
             stats |-> RecordError(s)]
    IN  CASE r = "ok" ->
               [task |-> Finished(t, SuccessResult(t.c), FALSE),
                cache |-> Put(cache, key, SuccessResult(t.c)),
                stats |-> RecordApiCall(s)]
          [] r = "empty" ->
               [task |-> Finished(t, OpenWaterResult, FALSE),
                cache |-> Put(cache, key, OpenWaterResult),
                stats |-> RecordApiCall(s)]
          [] r = "s429" ->
               [task |-> [t EXCEPT !.pc = "sleeping", !.sleeps = @ + 1],
                cache |-> cache, stats |-> s]
          [] r = "other" -> fail("geocoding failed")
          [] r = "timeout" -> fail("timeout")
          [] OTHER -> fail("error")

Count429(hist) == Cardinality({i \in DOMAIN hist : hist[i] = "s429"})

Outstanding == Cardinality({i \in DOMAIN tasks : tasks[i].pc = "sent"})

\* The coroutines of a gather all run to their first await before the loop
\* polls for I/O or timers, so no answer arrives while one is still unstarted.
AllStarted == \A i \in DOMAIN tasks : tasks[i].pc # "new"

AllDone == \A i \in DOMAIN tasks : tasks[i].pc = "done"

\* What a call that is starting remembers of the call before it.
Remember ==
    IF rpc = "returned"
    THEN [impl |-> impl, coordinates |-> coordinates, results |-> results]
    ELSE prev

RECURSIVE HitStats(_, _, _)
HitStats(coords, cache, s) ==
    IF coords = <<>> THEN s
    ELSE HitStats(Tail(coords), cache,
                  IF InCache(cache, Head(coords)) THEN RecordCacheHit(s)
                  ELSE s)

\* geo_utils.py:139-177  batch_reverse_geocode up to its first await: the
\* partition into cached and uncached coordinates, the early return when
\* nothing is uncached, the batches and the first batch's coroutines.
BatchCall(coords, batch_size, has_key) ==
    /\ rpc \in {"idle", "returned"}
    /\ LET miss == SelectSeq(coords, LAMBDA c : ~InCache(geo_cache, c))
           hit == {c \in Range(coords) : InCache(geo_cache, c)}
           size == CappedBatchSize(batch_size)
       IN  /\ results' = [c \in hit |-> CachedEntry(geo_cache, c)]
           /\ stats' = HitStats(coords, geo_cache, stats)
           /\ uncached' = miss
           /\ limit' = size
           /\ IF miss = <<>>
              THEN /\ rpc' = "returned"
                   /\ batch_num' = 0
                   /\ tasks' = <<>>
              ELSE /\ rpc' = "gather"
                   /\ batch_num' = 1
                   /\ tasks' = NewTasks(BatchOf(miss, size, 1))
    /\ impl' = "batch"
    /\ call_no' = call_no + 1
    /\ coordinates' = coords
    /\ geoapify_key' = has_key
    /\ saves' = 0
    /\ net' = 0
    /\ prev' = Remember
    /\ UNCHANGED <<geo_cache, disk, geocode_cache, syncVars, nonGeoVars>>

\* geo_utils.py:186-192  gather starts the batch's coroutines in the order
\* they were created; each runs to its first await.
TaskBegin(i) ==
    /\ impl = "batch" /\ rpc = "gather"
    /\ i \in DOMAIN tasks
    /\ tasks[i].pc = "new"
    /\ \A j \in 1..(i - 1) : tasks[j].pc # "new"
    /\ LET e == EnterLookup(tasks[i], geo_cache, stats, geoapify_key)
       IN  /\ tasks' = [tasks EXCEPT ![i] = e.task]
           /\ geo_cache' = e.cache
           /\ stats' = e.stats
           /\ net' = net + e.sent
    /\ UNCHANGED <<disk, geocode_cache, impl, rpc, call_no, coordinates,
                   geoapify_key, limit, uncached, batch_num, results, saves,
                   prev, syncVars, nonGeoVars>>

\* geo_utils.py:245-290  the provider's answer reaches the coroutine.
TaskResponse(i, r) ==
    /\ impl = "batch" /\ rpc = "gather"
    /\ i \in DOMAIN tasks
    /\ tasks[i].pc = "sent"
    /\ AllStarted
    /\ r = "s429" => Count429(tasks[i].hist) < Max429
    /\ LET e == OnResponse(tasks[i], r, geo_cache, stats)
       IN  /\ tasks' = [tasks EXCEPT ![i] = e.task]
           /\ geo_cache' = e.cache
           /\ stats' = e.stats
    /\ UNCHANGED <<disk, geocode_cache, impl, rpc, call_no, coordinates,
                   geoapify_key, limit, uncached, batch_num, results, saves,
                   net, prev, syncVars, nonGeoVars>>

\* geo_utils.py:269-270  the sleep of the 429 branch ends and the coroutine
\* calls itself: the cache double-check runs again, then the request.
TaskRetry(i) ==
    /\ impl = "batch" /\ rpc = "gather"
    /\ i \in DOMAIN tasks
    /\ tasks[i].pc = "sleeping"
    /\ AllStarted
    /\ LET e == EnterLookup(tasks[i], geo_cache, stats, geoapify_key)
       IN  /\ tasks' = [tasks EXCEPT ![i] = e.task]
           /\ geo_cache' = e.cache
           /\ stats' = e.stats
           /\ net' = net + e.sent
    /\ UNCHANGED <<disk, geocode_cache, impl, rpc, call_no, coordinates,
                   geoapify_key, limit, uncached, batch_num, results, saves,
                   prev, syncVars, nonGeoVars>>

\* geo_utils.py:192-204  gather returns once every coroutine has returned;
\* the results are copied and the call sleeps 0.2 s.  No coroutine can hand
\* gather an exception: single_reverse_geocode_fixed returns from inside
\* "except Exception" on every failure, so the isinstance branch at 195-199
\* and the fallback loop at 206-219 have no behaviour here.
GatherDone ==
    /\ impl = "batch" /\ rpc = "gather"
    /\ AllDone
    /\ results' =
         [c \in DOMAIN results \cup {tasks[i].c : i \in DOMAIN tasks} |->
            IF \E i \in DOMAIN tasks : tasks[i].c = c
            THEN tasks[CHOOSE i \in DOMAIN tasks : tasks[i].c = c].result
            ELSE results[c]]
    /\ rpc' = "delay"
    /\ UNCHANGED <<geo_cache, disk, stats, geocode_cache, impl, call_no,
                   coordinates, geoapify_key, limit, uncached, batch_num,
                   tasks, saves, net, prev, syncVars, nonGeoVars>>

\* geo_utils.py:131-137  save_geo_cache: the file is rewritten from
\* geo_cache; a failed write is caught and leaves the file as it was.
SaveGeoCache(cache, file, ok) == IF ok THEN cache ELSE file

\* geo_utils.py:180-190  the next batch's coroutines are created
NextBatch ==
    /\ impl = "batch" /\ rpc = "delay"
    /\ batch_num < NumBatches(uncached, limit)
    /\ batch_num' = batch_num + 1
    /\ tasks' = NewTasks(BatchOf(uncached, limit, batch_num + 1))
    /\ rpc' = "gather"
    /\ UNCHANGED <<geo_cache, disk, stats, geocode_cache, impl, call_no,
                   coordinates, geoapify_key, limit, uncached, results,
                   saves, net, prev, syncVars, nonGeoVars>>

\* geo_utils.py:221-224  after the last batch: save_geo_cache(), return
BatchReturn(ok) ==
    /\ impl = "batch" /\ rpc = "delay"
    /\ batch_num = NumBatches(uncached, limit)
    /\ disk' = SaveGeoCache(geo_cache, disk, ok)
    /\ saves' = saves + 1
    /\ rpc' = "returned"
    /\ UNCHANGED <<geo_cache, stats, geocode_cache, impl, call_no,
                   coordinates, geoapify_key, limit, uncached, batch_num,
                   tasks, results, net, prev, syncVars, nonGeoVars>>

BatchStep ==
    \/ \E i \in 1..MaxCoords : TaskBegin(i)
    \/ \E i \in 1..MaxCoords, r \in Responses : TaskResponse(i, r)
    \/ \E i \in 1..MaxCoords : TaskRetry(i)
    \/ GatherDone
    \/ NextBatch
    \/ \E ok \in BOOLEAN : BatchReturn(ok)

BatchStart ==
    \E coords \in CoordSeqs, bs \in 1..MaxBatchArg \cup {BatchCap + 1},
       k \in BOOLEAN :
          BatchCall(coords, bs, k)

BatchNext ==
    \/ call_no < MaxCalls /\ BatchStart
    \/ BatchStep

\* Up to MaxCalls calls of batch_reverse_geocode, one after the other, on the
\* module's geo_cache.
SpecBatch == InitAll /\ [][BatchNext]_vars

\* ---------------------------------- LocationAnalyzer.geocode_points (async)

\* location_analyzer.py:285  lat, lon = coord_key.split(','): the request is
\* made for the rounded coordinate the key spells.
QueryOf(key) ==
    <<(IF key[2][1] = "-" THEN -1 ELSE 1) * key[2][2],
      (IF key[3][1] = "-" THEN -1 ELSE 1) * key[3][2]>>

\* location_analyzer.py:303-309  GeocodeResult from data['results'][0]; a
\* GeocodeResult has no 'place' field.
PointResult(key) ==
    DictEntry("city " \o PlaceOf(QueryOf(key)), "state", "country", Absent,
              "formatted " \o PlaceOf(QueryOf(key)), "false")

\* location_analyzer.py:321-326  the fallback GeocodeResult of the except
\* branch ("Lat: .., Lon: .." as place_name, is_water left at its default)
FallbackResult(key) ==
    DictEntry("Unknown", "Unknown", "Unknown", Absent, "Lat: .., Lon: ..",
              "false")

\* location_analyzer.py:265-269  coord_groups: the keys in the order they
\* first appear, each with its points
RECURSIVE GroupKeys(_)
GroupKeys(points) ==
    IF points = <<>> THEN <<>>
    ELSE LET first == GroupKeys(SubSeq(points, 1, Len(points) - 1))
             key == CoordKey(points[Len(points)])
         IN  IF key \in Range(first) THEN first ELSE Append(first, key)

GroupOf(points, key) == {c \in Range(points) : CoordKey(c) = key}

NewPointTask(points, key) ==
    [key |-> key, group |-> GroupOf(points, key), pc |-> "new",
     hist |-> <<>>]

\* asyncio.Semaphore(max_concurrent_requests): a coroutine enters the
\* "async with semaphore" block only while fewer than `permits` coroutines are
\* inside it.
Holders(ts) == {i \in DOMAIN ts : ts[i].pc \in {"delay", "sent"}}

SemaphoreFreeUnbounded(ts, permits) == TRUE

SemaphoreFree(ts, permits) == Cardinality(Holders(ts)) < permits

\* results[point] = result for every point of the group
Assign(res, group, value) ==
    [c \in DOMAIN res \cup group |-> IF c \in group THEN value ELSE res[c]]

\* location_analyzer.py:261-334  geocode_points up to its await of gather
PointsCall(points, max_concurrent_requests) ==
    /\ rpc \in {"idle", "returned"}
    /\ impl' = "points"
    /\ rpc' = "gather"
    /\ call_no' = call_no + 1
    /\ coordinates' = points
    /\ limit' = max_concurrent_requests
    /\ tasks' = LET keys == GroupKeys(points)
                IN  [i \in 1..Len(keys) |-> NewPointTask(points, keys[i])]
    /\ results' = <<>>
    /\ saves' = 0
    /\ net' = 0
    /\ prev' = Remember
    /\ UNCHANGED <<geo_cache, disk, stats, geocode_cache, geoapify_key,
                   uncached, batch_num, syncVars, nonGeoVars>>

\* location_analyzer.py:276-295  inside the semaphore: the cache test, and on
\* a miss the session and the asyncio.sleep(api_delay) before the request
EnterPoint(i) ==
    IF tasks[i].key \in DOMAIN geocode_cache
    THEN /\ results' = Assign(results, tasks[i].group,
                              geocode_cache[tasks[i].key])
         /\ tasks' = [tasks EXCEPT ![i].pc = "done"]
    ELSE /\ tasks' = [tasks EXCEPT ![i].pc = "delay"]
         /\ UNCHANGED results

\* location_analyzer.py:274-276  a coroutine starts: it takes the semaphore
\* if a permit is free, else it waits for one.
PointBegin(i) ==
    /\ impl = "points" /\ rpc = "gather"
    /\ i \in DOMAIN tasks
    /\ tasks[i].pc = "new"
    /\ \A j \in 1..(i - 1) : tasks[j].pc # "new"
    /\ IF SemaphoreFree(tasks, limit)
       THEN EnterPoint(i)
       ELSE /\ tasks' = [tasks EXCEPT ![i].pc = "waiting"]
            /\ UNCHANGED results
    /\ UNCHANGED <<geo_cache, disk, stats, geocode_cache, impl, rpc, call_no,
                   coordinates, geoapify_key, limit, uncached, batch_num,
                   saves, net, prev, syncVars, nonGeoVars>>

\* A released permit wakes the longest-waiting coroutine.
PointAcquire(i) ==
    /\ impl = "points" /\ rpc = "gather"
    /\ i \in DOMAIN tasks
    /\ tasks[i].pc = "waiting"
    /\ AllStarted
    /\ \A j \in 1..(i - 1) : tasks[j].pc # "waiting"
    /\ SemaphoreFree(tasks, limit)
    /\ EnterPoint(i)
    /\ UNCHANGED <<geo_cache, disk, stats, geocode_cache, impl, rpc, call_no,
                   coordinates, geoapify_key, limit, uncached, batch_num,
                   saves, net, prev, syncVars, nonGeoVars>>

\* location_analyzer.py:295-297  the delay ends and the request is sent
PointSend(i) ==
    /\ impl = "points" /\ rpc = "gather"
    /\ i \in DOMAIN tasks
    /\ tasks[i].pc = "delay"
    /\ AllStarted
    /\ tasks' = [tasks EXCEPT ![i].pc = "sent"]
    /\ net' = net + 1
    /\ UNCHANGED <<geo_cache, disk, stats, geocode_cache, impl, rpc, call_no,
                   coordinates, geoapify_key, limit, uncached, batch_num,
                   results, saves, prev, syncVars, nonGeoVars>>

\* location_analyzer.py:297-328  the provider's answer: a 200 with results
\* is cached and assigned; a 200 without results and any other status leave
\* the group without a result; a timeout or an exception assigns the
\* fallback, which is not cached.  The semaphore is released.
PointResponse(i, r) ==
    /\ impl = "points" /\ rpc = "gather"
    /\ i \in DOMAIN tasks
    /\ tasks[i].pc = "sent"
    /\ tasks' = [tasks EXCEPT ![i].pc = "done", ![i].hist = Append(@, r)]
    /\ CASE r = "ok" ->
              /\ geocode_cache' =
                   Put(geocode_cache, tasks[i].key, PointResult(tasks[i].key))
              /\ results' = Assign(results, tasks[i].group,
                                   PointResult(tasks[i].key))
         [] r \in {"empty", "s429", "other"} ->
              UNCHANGED <<geocode_cache, results>>
         [] OTHER ->
              /\ results' = Assign(results, tasks[i].group,
                                   FallbackResult(tasks[i].key))
              /\ UNCHANGED geocode_cache
    /\ UNCHANGED <<geo_cache, disk, stats, impl, rpc, call_no, coordinates,
                   geoapify_key, limit, uncached, batch_num, saves, net,
                   prev, syncVars, nonGeoVars>>

\* location_analyzer.py:118-134  save_cache: the file is rewritten from
\* geocode_cache alone, each result as an object with the five fields of a
\* GeocodeResult.
SaveCacheFile(cache) ==
    [k \in DOMAIN cache |->
        DictEntry(cache[k].city, cache[k].state, cache[k].country, Absent,
                  cache[k].place_name, cache[k].is_water)]

\* location_analyzer.py:334-337  gather has returned: save_cache(), return.
\* save_cache has no try: a write that fails raises out of geocode_points.
PointsReturn(ok) ==
    /\ impl = "points" /\ rpc = "gather"
    /\ AllDone
    /\ saves' = saves + 1
    /\ IF ok
       THEN /\ disk' = SaveCacheFile(geocode_cache)
            /\ rpc' = "returned"
       ELSE /\ rpc' = "raised"
            /\ UNCHANGED disk
    /\ UNCHANGED <<geo_cache, stats, geocode_cache, impl, call_no,
                   coordinates, geoapify_key, limit, uncached, batch_num,
                   tasks, results, net, prev, syncVars, nonGeoVars>>

PointsStep ==
    \/ \E i \in 1..MaxCoords : PointBegin(i)
    \/ \E i \in 1..MaxCoords : PointAcquire(i)
    \/ \E i \in 1..MaxCoords : PointSend(i)
    \/ \E i \in 1..MaxCoords, r \in Responses : PointResponse(i, r)
    \/ \E ok \in BOOLEAN : PointsReturn(ok)

PointsStart ==
    \E points \in CoordSeqs, m \in 1..MaxConcurrentArg : PointsCall(points, m)

PointsNext ==
    \/ call_no < MaxCalls /\ PointsStart
    \/ PointsStep

\* Up to MaxCalls calls of geocode_points on one LocationAnalyzer.
SpecPoints == InitAll /\ [][PointsNext]_vars

\* One resolve call, by either implementation, from an empty cache.
CallNext ==
    \/ call_no = 0 /\ BatchStart
    \/ call_no = 0 /\ PointsStart
    \/ BatchStep
    \/ PointsStep

SpecCall == InitAll /\ [][CallNext]_vars

\* ------------------------------------------------ reverse_geocode (blocking)

\* The answers requests.get can end with: 200 with a feature, 200 without
\* features, and a failure (raise_for_status on any other status, or an
\* exception of the HTTP client).
SyncResponses == {"ok", "empty", "error"}

\* geo_utils.py:303-313  the cache test of reverse_geocode: the 5-decimal
\* key, then the 4-decimal fallback key
SyncInCacheNoFallback(cache, c) == Key5(c) \in DOMAIN cache

SyncInCache(cache, c) == InCache(cache, c)

\* geo_utils.py:319-355  the result of a cache miss and the counters it moves
SyncMiss(c, has_key, r, s) ==
    IF has_key /\ r = "ok"
    THEN [result |-> SuccessResult(c), stats |-> RecordApiCall(s)]
    ELSE IF has_key /\ r = "empty"
    THEN [result |-> ShortResult("open water"), stats |-> RecordApiCall(s)]
    ELSE IF has_key
    THEN [result |-> ShortResult("unknown location"),
          stats |-> RecordError(RecordError(s))]
    ELSE [result |-> ShortResult("unknown location"),
          stats |-> RecordError(s)]

\* geo_utils.py:291-364  reverse_geocode, start to return: nothing else runs
\* in the pipeline while it blocks on the request.
SyncLookup(c, has_key, r, ok) ==
    /\ rpc \in {"idle", "returned"}
    /\ sync_no' = sync_no + 1
    /\ LET seen == [c |-> c,
                    same |-> c \in written_for,
                    coarse |-> \E w \in written_for : c = Round4Coord(w),
                    keyed |-> \E w \in written_for :
                                 Key5(w) \in {Key5(c), Key4(c)}]
       IN  IF SyncInCache(geo_cache, c)
           THEN /\ stats' = RecordCacheHit(stats)
                /\ last' = [c |-> seen.c, same |-> seen.same,
                            coarse |-> seen.coarse, keyed |-> seen.keyed,
                            hits |-> 1, sent |-> 0]
                /\ UNCHANGED <<geo_cache, disk, written_for>>
           ELSE LET m == SyncMiss(c, has_key, r, stats)
                IN  /\ stats' = m.stats
                    /\ geo_cache' = Put(geo_cache, Key5(c), m.result)
                    /\ disk' = SaveGeoCache(Put(geo_cache, Key5(c), m.result),
                                            disk, ok)
                    /\ written_for' = written_for \cup {c}
                    /\ last' = [c |-> seen.c, same |-> seen.same,
                                coarse |-> seen.coarse, keyed |-> seen.keyed,
                                hits |-> 0,
                                sent |-> IF has_key THEN 1 ELSE 0]
    /\ UNCHANGED <<geocode_cache, impl, rpc, call_no, coordinates,
                   geoapify_key, limit, uncached, batch_num, tasks, results,
                   saves, net, prev, nonGeoVars>>

SyncStart ==
    \E c \in Coords, k \in BOOLEAN, r \in SyncResponses, ok \in BOOLEAN :
       SyncLookup(c, k, r, ok)

\* reverse_geocode calls one after the other, then one call of
\* batch_reverse_geocode followed to the end of its partition loop.
LookupNext ==
    \/ call_no = 0 /\ sync_no < MaxSyncCalls /\ SyncStart
    \/ call_no = 0 /\ BatchStart

SpecLookup == InitAll /\ [][LookupNext]_vars

\* ------------------------------------------- GeocodingStats under threads

\* Every method body runs inside "with self.lock".  A body is a sequence of
\* attribute loads and stores: "x += n" loads x, then stores the sum.
Load(f) == [k |-> "load", f |-> f, n |-> 0]

Store(f, n) == [k |-> "store", f |-> f, n |-> n]

AddTo(f, n) == <<Load(f), Store(f, n)>>

Zero(f) == [k |-> "zero", f |-> f, n |-> 0]

Read(f) == [k |-> "read", f |-> f, n |-> 0]

Total(i) == [k |-> "total", f |-> "", n |-> i]

StatMethods ==
    {"record_cache_hit", "record_api_call", "record_batch_request",
     "record_error", "reset", "get_stats"}

\* geo_utils.py:31-92  the body of each method, in program order.  get_stats
\* builds its dict entry by entry; avg_batch_size is left out.
Body(op, is_water, n) ==
    CASE op = "record_cache_hit" ->
           AddTo(IF is_water THEN "water_cache_hits" ELSE "cache_hits", 1)
      [] op = "record_api_call" ->
           AddTo(IF is_water THEN "water_api_calls" ELSE "api_calls", n)
      [] op = "record_batch_request" ->
           AddTo("batch_requests", 1)
             \o AddTo("total_coordinates_in_batches", n)
             \o AddTo("api_calls", n)
      [] op = "record_error" ->
           AddTo(IF is_water THEN "water_errors" ELSE "errors", 1)
      [] op = "reset" ->
           <<Zero("cache_hits"), Zero("api_calls"), Zero("errors"),
             Zero("water_cache_hits"), Zero("water_api_calls"),
             Zero("water_errors"), Zero("batch_requests"),
             Zero("total_coordinates_in_batches")>>
      [] OTHER ->
           <<Read("cache_hits"), Read("api_calls"), Read("errors"), Total(1),
             Read("batch_requests"), Read("water_cache_hits"),
             Read("water_api_calls"), Read("water_errors"), Total(2)>>

\* What a completed call does to the counters when nothing runs beside it.
Alone(op, is_water, n, s) ==
    CASE op = "record_cache_hit" -> RecordCacheHitOf(s, is_water)
      [] op = "record_api_call" -> RecordApiCallOf(s, is_water, n)
      [] op = "record_batch_request" -> RecordBatchRequest(s, n)
      [] op = "record_error" -> RecordErrorOf(s, is_water)
      [] op = "reset" -> ZeroStats
      [] OTHER -> s

\* threading.Lock: acquire succeeds only while no thread holds the lock.
LockAvailableAlways(l) == TRUE

LockAvailable(l) == l = 0

\* A thread calls a method and reaches "with self.lock".
StatCall(t, op, is_water, n) ==
    /\ th[t].pc = "idle"
    /\ th' = [th EXCEPT ![t] = [IdleThread EXCEPT !.pc = "wait", !.op = op,
                                                  !.is_water = is_water,
                                                  !.n = n]]
    /\ stat_ops' = stat_ops + 1
    /\ UNCHANGED <<lock, expected, snap, stats, fileVars, pipeVars>>
    /\ UNCHANGED <<geo_cache, disk, geocode_cache, impl, rpc, call_no,
                   coordinates, geoapify_key, limit, uncached, batch_num,
                   tasks, results, saves, net, prev, syncVars>>

\* geo_utils.py:33, 45, 53, 61, 68, 76  with self.lock: enter
StatAcquire(t) ==
    /\ th[t].pc = "wait"
    /\ LockAvailable(lock)
    /\ lock' = t
    /\ th' = [th EXCEPT ![t].pc = "run", ![t].step = 1]
    /\ UNCHANGED <<stat_ops, expected, snap, stats, fileVars, pipeVars>>
    /\ UNCHANGED <<geo_cache, disk, geocode_cache, impl, rpc, call_no,
                   coordinates, geoapify_key, limit, uncached, batch_num,
                   tasks, results, saves, net, prev, syncVars>>

\* One load or store of the method body.
StatStep(t) ==
    /\ th[t].pc = "run"
    /\ th[t].step <= Len(Body(th[t].op, th[t].is_water, th[t].n))
    /\ LET i == Body(th[t].op, th[t].is_water, th[t].n)[th[t].step]
           me == [th[t] EXCEPT !.step = @ + 1]
       IN  CASE i.k = "load" ->
                  /\ th' = [th EXCEPT ![t] = [me EXCEPT !.tmp = stats[i.f]]]
                  /\ UNCHANGED stats
             [] i.k = "store" ->
                  /\ stats' = [stats EXCEPT ![i.f] = th[t].tmp + i.n]
                  /\ th' = [th EXCEPT ![t] = me]
             [] i.k = "zero" ->
                  /\ stats' = [stats EXCEPT ![i.f] = 0]
                  /\ th' = [th EXCEPT ![t] = me]
             [] i.k = "read" ->
                  /\ th' = [th EXCEPT ![t] =
                              [me EXCEPT !.view[i.f] = stats[i.f]]]
                  /\ UNCHANGED stats
             [] OTHER ->
                  /\ th' = [th EXCEPT ![t] =
                              [me EXCEPT !.totals[i.n] =
                                 IF i.n = 1
                                 THEN stats.cache_hits + stats.api_calls
                                        + stats.errors
                                 ELSE stats.water_cache_hits
                                        + stats.water_api_calls
                                        + stats.water_errors]]
                  /\ UNCHANGED stats
    /\ UNCHANGED <<lock, stat_ops, expected, snap, fileVars, pipeVars>>
    /\ UNCHANGED <<geo_cache, disk, geocode_cache, impl, rpc, call_no,
                   coordinates, geoapify_key, limit, uncached, batch_num,
                   tasks, results, saves, net, prev, syncVars>>

\* The dict get_stats returns, from what the thread read.
Snapshot(view, totals) ==
    [geocoding |->
        [cache_hits |-> view.cache_hits, api_calls |-> view.api_calls,
         errors |-> view.errors, total |-> totals[1],
         batch_requests |-> view.batch_requests],
     water_detection |->
        [cache_hits |-> view.water_cache_hits,
         api_calls |-> view.water_api_calls,
         errors |-> view.water_errors, total |-> totals[2]]]

\* The end of the with block: the lock is released and the method returns.
StatReturn(t) ==
    /\ th[t].pc = "run"
    /\ th[t].step > Len(Body(th[t].op, th[t].is_water, th[t].n))
    /\ lock' = 0
    /\ expected' = Alone(th[t].op, th[t].is_water, th[t].n, expected)
    /\ snap' = IF th[t].op = "get_stats"
               THEN Snapshot(th[t].view, th[t].totals)
               ELSE snap
    /\ th' = [th EXCEPT ![t] = [IdleThread EXCEPT !.op = th[t].op]]
    /\ UNCHANGED <<stat_ops, stats, fileVars, pipeVars>>
    /\ UNCHANGED <<geo_cache, disk, geocode_cache, impl, rpc, call_no,
                   coordinates, geoapify_key, limit, uncached, batch_num,
                   tasks, results, saves, net, prev, syncVars>>

StatsNext ==
    \/ /\ stat_ops < MaxStatOps
       /\ \E t \in Threads, op \in StatMethods, w \in BOOLEAN,
             n \in 1..MaxCount :
             /\ op \in {"reset", "get_stats", "record_batch_request"}
                  => ~w
             /\ op \in {"reset", "get_stats", "record_cache_hit",
                        "record_error"} => n = 1
             /\ StatCall(t, op, w, n)
    \/ \E t \in Threads : StatAcquire(t)
    \/ \E t \in Threads : StatStep(t)
    \/ \E t \in Threads : StatReturn(t)

\* Threads calling the methods of one GeocodingStats object in any order.
SpecStats == InitAll /\ [][StatsNext]_vars

\* ------------------------------------------- the cache file's round trips

\* The three key namespaces of config/geo_cache.json: a plain coordinate key,
\* f"water:{...}" and f"jump:{...}:{...}".  The first component of a key is
\* its prefix.
WaterKey(c) == <<"water:", RoundStr(c[1], 10), RoundStr(c[2], 10)>>

JumpKey(a, b) ==
    <<"jump:", RoundStr(a[1], 10), RoundStr(a[2], 10),
      RoundStr(b[1], 10), RoundStr(b[2], 10)>>

\* A bare JSON boolean, the value of a water: or jump: key.
BoolEntry(b) == [bool |-> b]

IsDict(e) == "place" \in DOMAIN e

\* The files earlier runs can leave: each of four keys is missing or holds
\* one of the values the code writes under it.
FileChoices ==
    [k \in {Key5(CoordA), CoordKey(CoordC), WaterKey(CoordA),
            JumpKey(CoordA, CoordC)} |->
       IF k[1] = ""
       THEN {SuccessResult(CoordA), FailureResult("timeout"),
             DictEntry("city gamma", "state", "country", Absent,
                       "formatted gamma", "false")}
       ELSE {BoolEntry("true"), BoolEntry("false")}]

Files ==
    UNION {[ks -> UNION {FileChoices[k] : k \in ks}] :
             ks \in SUBSET DOMAIN FileChoices}

PossibleFiles == {f \in Files : \A k \in DOMAIN f : f[k] \in FileChoices[k]}

\* geo_utils.py:16-22  the module's load: geo_cache = json.load(f)
LoadGeoCache(file) == file

\* location_analyzer.py:106-112  one GeocodeResult from one JSON object
\* (dict.get returns None, spelled "null", for a key the object lacks)
LoadResult(data) ==
    DictEntry(IF data.city = Absent THEN "null" ELSE data.city,
              IF data.state = Absent THEN "null" ELSE data.state,
              IF data.country = Absent THEN "null" ELSE data.country,
              Absent,
              IF data.place_name # Absent THEN data.place_name
              ELSE IF data.place # Absent THEN data.place
              ELSE "",
              IF data.is_water = Absent THEN "false" ELSE data.is_water)

\* location_analyzer.py:93-116  LocationAnalyzer.load_cache: the keys that
\* start with neither "water:" nor "jump:" and hold an object
LoadCache(cache, file) ==
    LET kept == {k \in DOMAIN file :
                   k[1] \notin {"water:", "jump:"} /\ IsDict(file[k])}
    IN  [k \in DOMAIN cache \cup kept |->
           IF k \in kept THEN LoadResult(file[k]) ELSE cache[k]]

\* geo_utils.py:14-22  import of geo_utils
ModuleLoad ==
    /\ fpc \in {"none", "module_saved", "analyzer_saved"}
    /\ geo_cache' = LoadGeoCache(disk)
    /\ disk_before' = disk
    /\ fpc' = "module_loaded"
    /\ UNCHANGED <<disk, stats, geocode_cache, impl, rpc, call_no,
                   coordinates, geoapify_key, limit, uncached, batch_num,
                   tasks, results, saves, net, prev, syncVars, statVars, pipeVars>>

\* geo_utils.py:131-137  save_geo_cache
ModuleSave(ok) ==
    /\ fpc = "module_loaded"
    /\ disk' = SaveGeoCache(geo_cache, disk, ok)
    /\ fpc' = "module_saved"
    /\ UNCHANGED <<geo_cache, stats, geocode_cache, impl, rpc, call_no,
                   coordinates, geoapify_key, limit, uncached, batch_num,
                   tasks, results, saves, net, prev, syncVars, statVars,
                   pipeVars, disk_before>>

\* location_analyzer.py:59-63  LocationAnalyzer(config): an empty
\* geocode_cache, then load_cache()
AnalyzerLoad ==
    /\ fpc \in {"none", "module_saved", "analyzer_saved"}
    /\ geocode_cache' = LoadCache(EmptyCache, disk)
    /\ disk_before' = disk
    /\ fpc' = "analyzer_loaded"
    /\ UNCHANGED <<geo_cache, disk, stats, impl, rpc, call_no, coordinates,
                   geoapify_key, limit, uncached, batch_num, tasks, results,
                   saves, net, prev, syncVars, statVars, pipeVars>>

\* location_analyzer.py:118-134  LocationAnalyzer.save_cache
AnalyzerSave ==
    /\ fpc = "analyzer_loaded"
    /\ disk' = SaveCacheFile(geocode_cache)
    /\ fpc' = "analyzer_saved"
    /\ UNCHANGED <<geo_cache, stats, geocode_cache, impl, rpc, call_no,
                   coordinates, geoapify_key, limit, uncached, batch_num,
                   tasks, results, saves, net, prev, syncVars, statVars,
                   pipeVars, disk_before>>

FileNext ==
    \/ ModuleLoad
    \/ \E ok \in BOOLEAN : ModuleSave(ok)
    \/ AnalyzerLoad
    \/ AnalyzerSave

\* A cache file left by earlier runs is loaded and saved again.
InitFiles ==
    /\ disk \in PossibleFiles
    /\ InitResolvers /\ InitStats /\ InitFile /\ InitPipe

SpecFile == InitFiles /\ [][FileNext]_vars

\* ============================================= the analysis pipeline's stages
\*
\* The stages between the input file and the reports are functions of their
\* input.  Each specification below starts with an input drawn from a bounded
\* set (stage_in), applies one stage to it as one step (stage_op), and keeps
\* what the stage returned (stage_out).
\*
\* Time is counted in whole minutes of UTC.  Points lie on one meridian, where
\* haversine_distance is R * |dlat|: a distance is the gap in millionths of a
\* degree of latitude, and one mile is 14473.02 of them (R = 3958.8).

\* ------------------------------------------------------------ pipeline bounds

\* Points handed to one filter, aggregation or jump stage.
MaxPoints == 3

\* ------------------------------------------------- thresholds of the filters

\* location_analyzer.py:49  min_distance_filter = 0.5 miles and
\* modern_analyzer_bridge.py:215: a gap exceeds 0.5 miles iff it exceeds 7236.
HalfMile == 7236

\* A smaller configured min_distance_filter (0.1 miles).
TenthMile == 1447

\* location_analyzer.py:50  min_time_filter = 0.5 hours, in minutes.
HalfHour == 30

\* A smaller configured min_time_filter (0.25 hours).
QuarterHour == 15

\* legacy_analyzer.py:114  0.124274 miles (200 m): a gap exceeds it iff it
\* exceeds 1798.
LegacyMiles == 1798

\* legacy_analyzer.py:114  600 seconds, in minutes.
LegacyMinutes == 10

\* ---------------------------------------------------------------- the points

\* LocationPoint(timestamp, latitude, longitude)
Point(timestamp, latitude) ==
    [timestamp |-> timestamp, latitude |-> latitude, longitude |-> 2000000]

\* Six points around (1.0, 2.0):
\*   PointA   00:00  1.000000
\*   PointB   00:02  1.000724   0.05 miles and 2 minutes after PointA
\*   PointC   00:20  1.005000   0.35 miles from PointA
\*   PointD   00:25  1.010000   0.69 miles from PointA, 0.35 from PointC
\*   PointE   00:45  1.000000   back at PointA's place
\*   PointF   01:00  1.200000   13.8 miles away
PointA == Point(0, 1000000)

PointB == Point(2, 1000724)

PointC == Point(20, 1005000)

PointD == Point(25, 1010000)

PointE == Point(45, 1000000)

PointF == Point(60, 1200000)

PipePoints == {PointA, PointB, PointC, PointD, PointE, PointF}

RECURSIVE SeqsOver(_, _)
\* The sequences over set S of length n.
SeqsOver(S, n) ==
    IF n = 0 THEN {<<>>}
    ELSE {Append(s, x) : s \in SeqsOver(S, n - 1), x \in S}

\* The lists of at most MaxPoints points.
PointLists == UNION {SeqsOver(PipePoints, n) : n \in 0..MaxPoints}

\* sorted(points, key=lambda p: p.timestamp) has been applied.
SortedByTimestamp(points) ==
    \A i \in 1..Len(points) - 1 :
        points[i].timestamp <= points[i + 1].timestamp

\* geo_utils.py:402-410 and location_analyzer.py:405-418  haversine_distance
\* for two places of one meridian (lon1 = lon2): R * |lat2 - lat1|, as the
\* gap in millionths of a degree.
HaversineDistance(lat1, lon1, lat2, lon2) == Abs(lat2 - lat1)

\* (point.timestamp - last_point.timestamp), in minutes; negative when the
\* later list element is the earlier instant.
TimeDiff(last_point, point) == point.timestamp - last_point.timestamp

\* A test that wants both thresholds exceeded.
IsSignificantWrongly(distance, time_diff, min_distance, min_time) ==
    distance > min_distance /\ time_diff > min_time

\* location_analyzer.py:255  distance > min_distance_filter or
\*                           time_diff > min_time_filter
IsSignificant(distance, time_diff, min_distance, min_time) ==
    distance > min_distance \/ time_diff > min_time

\* A list that grows at its head.
KeepInFront(filtered, point) == <<point>> \o filtered

\* location_analyzer.py:256  filtered.append(point)
Keep(filtered, point) == Append(filtered, point)

RECURSIVE FilterLoop(_, _, _, _, _, _)
\* location_analyzer.py:248-257  for point in points[1:], from index i on,
\* with the list kept so far and the point kept last.
FilterLoop(points, i, filtered, last_point, min_distance, min_time) ==
    IF i > Len(points) THEN filtered
    ELSE LET point == points[i]
             distance == HaversineDistance(last_point.latitude,
                                           last_point.longitude,
                                           point.latitude, point.longitude)
             time_diff == TimeDiff(last_point, point)
         IN  IF IsSignificant(distance, time_diff, min_distance, min_time)
             THEN FilterLoop(points, i + 1, Keep(filtered, point), point,
                             min_distance, min_time)
             ELSE FilterLoop(points, i + 1, filtered, last_point,
                             min_distance, min_time)

\* location_analyzer.py:240-259  LocationAnalyzer.filter_significant_points
FilterSignificantPoints(points, min_distance, min_time) ==
    IF points = <<>> THEN <<>>
    ELSE FilterLoop(points, 2, Keep(<<>>, points[1]), points[1],
                    min_distance, min_time)

\* modern_analyzer_bridge.py:204-217  the same loop with both thresholds
\* written as 0.5; points is not empty there (197-199).
ModernFilter(points) ==
    FilterLoop(points, 2, Keep(<<>>, points[1]), points[1], HalfMile,
               HalfHour)

\* legacy_analyzer.py:108-121  "stricter deduplication": last_coord is None
\* for the first element, which is therefore kept; coords is not empty
\* there (104-106).
LegacyDedup(coords) ==
    FilterLoop(coords, 2, Keep(<<>>, coords[1]), coords[1], LegacyMiles,
               LegacyMinutes)

\* The thresholds a LocationAnalyzer is configured with.
DistanceFilters == {HalfMile, TenthMile}

TimeFilters == {HalfHour, QuarterHour}

InitFilter ==
    /\ disk = EmptyCache /\ InitResolvers /\ InitStats /\ InitFile
    /\ stage_in \in PointLists
    /\ stage_op = NoStage
    /\ stage_out = <<>>

\* analyze_location_history (location_analyzer.py:428-432) filters the sorted
\* list parse_location_data returned.
AnalyzerFilterStage ==
    /\ stage_op = NoStage
    /\ SortedByTimestamp(stage_in)
    /\ \E min_distance \in DistanceFilters, min_time \in TimeFilters :
          /\ stage_op' = [name |-> "filter_significant_points",
                          min_distance_filter |-> min_distance,
                          min_time_filter |-> min_time]
          /\ stage_out' = FilterSignificantPoints(stage_in, min_distance,
                                                  min_time)
    /\ UNCHANGED <<stage_in, geoVars, statVars, fileVars>>

\* run_modern_analysis filters its sorted, non-empty list.
ModernFilterStage ==
    /\ stage_op = NoStage
    /\ stage_in # <<>>
    /\ SortedByTimestamp(stage_in)
    /\ stage_op' = [name |-> "modern_filter"]
    /\ stage_out' = ModernFilter(stage_in)
    /\ UNCHANGED <<stage_in, geoVars, statVars, fileVars>>

\* process_location_file of legacy_analyzer filters coords in file order,
\* before it sorts (124).
LegacyDedupStage ==
    /\ stage_op = NoStage
    /\ stage_in # <<>>
    /\ stage_op' = [name |-> "legacy_dedup"]
    /\ stage_out' = LegacyDedup(stage_in)
    /\ UNCHANGED <<stage_in, geoVars, statVars, fileVars>>

FilterNext ==
    \/ AnalyzerFilterStage
    \/ ModernFilterStage
    \/ LegacyDedupStage

SpecFilter == InitFilter /\ [][FilterNext]_vars

\* ------------------------------------------------------- the timeline entries

\* Timeline objects handed to one parser.
MaxEntries == 2

\* Minutes in a day, days in a year (no leap year among the years modelled).
DayMinutes == 1440

YearDays == 365

\* A timestamp text "YYYY-MM-DDTHH:MM:SS+HH:MM": the wall-clock time it
\* shows, in minutes since the start of year 0, and the UTC offset it shows,
\* in minutes.
Ts(local, offset) == [local |-> local, offset |-> offset]

\* pd.to_datetime(text, utc=True): the instant, in minutes of UTC.
ToDatetimeUtc(ts) == ts.local - ts.offset

\* dt.date() of a UTC datetime, as a day number.
DateOf(t) == t \div DayMinutes

\* int(timestamp_str[:4]): the year the text shows.
TextYear(ts) == (ts.local \div DayMinutes) \div YearDays

\* date.year
YearOfDate(d) == d \div YearDays

\* A "geo:..." string: the number of comma-separated parts after the prefix,
\* whether float() accepts the first two, and their values in millionths of
\* a degree.
Geo(lat, lon) == [parts |-> 2, numeric |-> TRUE, lat |-> lat, lon |-> lon]

GeoThreeParts == [parts |-> 3, numeric |-> TRUE, lat |-> 1000000,
                  lon |-> 2000000]

GeoNotNumeric == [parts |-> 2, numeric |-> FALSE, lat |-> 0, lon |-> 0]

\* A key a dict does not have, or None, and a value that is there.
Missing == <<>>

Some(v) == <<v>>

\* A timeline object: a dict whose keys hold Missing or Some(value).
\*   activity      {start, end, distanceMeters}
\*   visit         {placeLocation, probability (percent)} of topCandidate
\*   timelinePath  list of {point, offset}
\*   placeVisit    {latitudeE7, longitudeE7, startTimestamp}
\*   timestampMs   with latitudeE7 / longitudeE7 beside it
\* E7 integers are kept in millionths of a degree like every coordinate.
EntryKeys ==
    {"startTime", "endTime", "activity", "visit", "timelinePath",
     "placeVisit", "timestampMs", "latitudeE7", "longitudeE7"}

Entry(fields) ==
    [k \in EntryKeys |->
        IF k \in DOMAIN fields THEN Some(fields[k]) ELSE Missing]

\* key in entry, and entry[key]
Has(entry, key) == entry[key] # Missing

Val(entry, key) == entry[key][1]

\* The first minute of 1 January of year 1.
NewYear == 525600

\* Eleven timeline objects around that midnight (UTC instants in brackets).
\*   Walk      activity   01:40+00:00 [01:40]  from CoordA, 500 m
\*   WalkAgain activity   02:43+01:00 [01:43]  from CoordB: CoordA's 5-decimal
\*                                             coordinate, same 10 minutes
\*   Dinner    visit      31 Dec 23:30-05:00 [1 Jan 04:30]
\*   Drive     path       02:00+00:00 [02:00]  points at +0, +5 and +15 min
\*   FarNorth  activity   03:00+00:00          latitude 95
\*   Garbled   activity   03:10+00:00          start with three parts, end
\*                                             not numeric
\*   Stay      placeVisit 03:20 UTC            latitudeE7 of 95 degrees
\*   Fix       timestampMs 03:30 UTC           longitudeE7 of 200 degrees
\*   Note      no shape   03:40+00:00
\*   Later     visit      3 Jan 01:00+00:00
\*   Both      activity and visit  04:00+00:00
Walk ==
    Entry([startTime |-> Ts(NewYear + 100, 0),
           endTime |-> Ts(NewYear + 130, 0),
           activity |-> [start |-> Geo(CoordA[1], CoordA[2]),
                         end |-> Geo(1005000, 2000000),
                         distanceMeters |-> 500]])

WalkAgain ==
    Entry([startTime |-> Ts(NewYear + 163, 60),
           endTime |-> Ts(NewYear + 200, 60),
           activity |-> [start |-> Geo(CoordB[1], CoordB[2]),
                         end |-> Geo(1010000, 2000000),
                         distanceMeters |-> 100]])

Dinner ==
    Entry([startTime |-> Ts(NewYear - 30, -300),
           endTime |-> Ts(NewYear + 30, -300),
           visit |-> [placeLocation |-> Geo(1010000, 2000000),
                      probability |-> 80]])

Drive ==
    Entry([startTime |-> Ts(NewYear + 120, 0),
           endTime |-> Ts(NewYear + 140, 0),
           timelinePath |->
              <<[point |-> Geo(CoordA[1], CoordA[2]), offset |-> 0],
                [point |-> Geo(1200000, 2000000), offset |-> 5],
                [point |-> Geo(1400000, 2000000), offset |-> 15]>>])

FarNorth ==
    Entry([startTime |-> Ts(NewYear + 180, 0),
           endTime |-> Ts(NewYear + 190, 0),
           activity |-> [start |-> Geo(95000000, 2000000),
                         end |-> Geo(1000000, 200000000),
                         distanceMeters |-> 900]])

Garbled ==
    Entry([startTime |-> Ts(NewYear + 190, 0),
           endTime |-> Ts(NewYear + 195, 0),
           activity |-> [start |-> GeoThreeParts, end |-> GeoNotNumeric,
                         distanceMeters |-> 900]])

Stay ==
    Entry([placeVisit |-> [latitudeE7 |-> 95000000,
                           longitudeE7 |-> 2000000,
                           startTimestamp |-> Ts(NewYear + 200, 0)]])

Fix ==
    Entry([timestampMs |-> NewYear + 210, latitudeE7 |-> 1000000,
           longitudeE7 |-> 200000000])

Note ==
    Entry([startTime |-> Ts(NewYear + 220, 0),
           endTime |-> Ts(NewYear + 230, 0)])

Later ==
    Entry([startTime |-> Ts(NewYear + 2 * DayMinutes + 60, 0),
           endTime |-> Ts(NewYear + 2 * DayMinutes + 120, 0),
           visit |-> [placeLocation |-> Geo(1000000, 2000000),
                      probability |-> 80]])

Both ==
    Entry([startTime |-> Ts(NewYear + 240, 0),
           endTime |-> Ts(NewYear + 260, 0),
           activity |-> [start |-> Geo(1000000, 2000000),
                         end |-> Geo(1010000, 2000000),
                         distanceMeters |-> 1100],
           visit |-> [placeLocation |-> Geo(1000000, 2000000),
                      probability |-> 80]])

Entries ==
    {Walk, WalkAgain, Dinner, Drive, FarNorth, Garbled, Stay, Fix, Note,
     Later, Both}

\* The lists of at most MaxEntries timeline objects.
EntryLists == UNION {SeqsOver(Entries, n) : n \in 0..MaxEntries}

\* The (start_date, end_date) pairs a caller asks for, as day numbers:
\* 1 January alone, 31 December to 1 January, 2 January alone.
DateRanges == {<<YearDays, YearDays>>, <<YearDays - 1, YearDays>>,
               <<YearDays + 1, YearDays + 1>>}

\* start_date <= d <= end_date
InRange(d, range) == range[1] <= d /\ d <= range[2]

\* ------------------------------------------- legacy_analyzer: parsing a file

\* round(x, 5) as a number, in millionths (-0.0 equals 0.0).
Round5(x) == (IF x < 0 THEN -1 ELSE 1) * RoundMag(x, 10)

\* round(dt.timestamp() / 600): the nearest multiple of ten minutes, ties to
\* the even one.
Bucket(t) == RoundMag(t, 10) \div 10

\* legacy_analyzer.py:58, 91  coord_key
LegacyCoordKey(lat, lon, t) == <<Round5(lat), Round5(lon), Bucket(t)>>

\* A test that finds every key new.
IsNewKeyAlways(coord_key, unique_coords) == TRUE

\* legacy_analyzer.py:59, 92  coord_key not in unique_coords
IsNewKey(coord_key, unique_coords) == coord_key \notin unique_coords

\* legacy_analyzer.py:58-63, 91-97  the key check and the append behind it;
\* met lists every point that reached the check.
LegacyAdd(st, lat, lon, t) ==
    LET coord_key == LegacyCoordKey(lat, lon, t)
        point == [timestamp |-> t, latitude |-> lat, longitude |-> lon]
    IN  IF IsNewKey(coord_key, st.unique_coords)
        THEN [coords |-> Append(st.coords, point),
              unique_coords |-> st.unique_coords \cup {coord_key},
              met |-> Append(st.met, point),
              added |-> TRUE]
        ELSE [st EXCEPT !.met = Append(@, point), !.added = FALSE]

\* float() accepts both parts of a "geo:" string that has two parts.
TwoNumbers(geo) == geo.parts = 2 /\ geo.numeric

\* legacy_analyzer.py:43-65  the activity branch
LegacyActivity(st, obj, range) ==
    LET dt == ToDatetimeUtc(Val(obj, "startTime"))
        geo == Val(obj, "activity").start
    IN  IF /\ Has(obj, "startTime") /\ Has(obj, "endTime")
           /\ TwoNumbers(geo)
           /\ InRange(DateOf(dt), range)
        THEN LegacyAdd(st, geo.lat, geo.lon, dt)
        ELSE st

RECURSIVE LegacyPath(_, _, _, _, _, _)
\* legacy_analyzer.py:74-99  for point in obj["timelinePath"], from index i
LegacyPath(st, path, i, start_dt, last_offset, range) ==
    IF i > Len(path) THEN st
    ELSE LET geo == path[i].point
             offset == path[i].offset
             point_dt == start_dt + offset
         IN  IF /\ TwoNumbers(geo)
                /\ (last_offset = Missing \/ offset >= last_offset[1] + 10)
                /\ InRange(DateOf(point_dt), range)
             THEN LET new == LegacyAdd(st, geo.lat, geo.lon, point_dt)
                  IN  LegacyPath(new, path, i + 1, start_dt,
                                 IF new.added THEN Some(offset)
                                 ELSE last_offset,
                                 range)
             ELSE LegacyPath(st, path, i + 1, start_dt, last_offset, range)

\* legacy_analyzer.py:67-99  the timelinePath branch
LegacyTimelinePath(st, obj, range) ==
    LET start_dt == ToDatetimeUtc(Val(obj, "startTime"))
    IN  IF Has(obj, "startTime") /\ InRange(DateOf(start_dt), range)
        THEN LegacyPath(st, Val(obj, "timelinePath"), 1, start_dt, Missing,
                        range)
        ELSE st

RECURSIVE LegacyObjects(_, _, _, _)
\* legacy_analyzer.py:38-99  for obj in timeline_objects, from index i
LegacyObjects(st, timeline_objects, i, range) ==
    IF i > Len(timeline_objects) THEN st
    ELSE LET obj == timeline_objects[i]
             new == IF Has(obj, "activity")
                    THEN LegacyActivity(st, obj, range)
                    ELSE IF Has(obj, "timelinePath")
                    THEN LegacyTimelinePath(st, obj, range)
                    ELSE st
         IN  LegacyObjects(new, timeline_objects, i + 1, range)

\* legacy_analyzer.py:32-121  process_location_file up to the sort: the
\* parse, the return of None without points, the threshold pass over coords.
LegacyParse(timeline_objects, range) ==
    LET st == LegacyObjects([coords |-> <<>>, unique_coords |-> {},
                             met |-> <<>>, added |-> FALSE],
                            timeline_objects, 1, range)
    IN  IF st.coords = <<>>
        THEN [outcome |-> "none", coords |-> <<>>, met |-> st.met,
              deduped |-> <<>>]
        ELSE [outcome |-> "points", coords |-> st.coords, met |-> st.met,
              deduped |-> LegacyDedup(st.coords)]

InitParse ==
    /\ disk = EmptyCache /\ InitResolvers /\ InitStats /\ InitFile
    /\ stage_in \in EntryLists
    /\ stage_op = NoStage
    /\ stage_out = <<>>

LegacyParseStage ==
    /\ stage_op = NoStage
    /\ \E range \in DateRanges :
          /\ stage_op' = [name |-> "legacy_parse", range |-> range]
          /\ stage_out' = LegacyParse(stage_in, range)
    /\ UNCHANGED <<stage_in, geoVars, statVars, fileVars>>

\* ------------------------------- LocationAnalyzer and the modern bridge: parse

\* sorted(seq, key=...): a stable sort; before[i, j] says the key of seq[i]
\* is less than the key of seq[j].
StableSort(seq, before) ==
    LET n == Len(seq)
        rank(i) == Cardinality({j \in 1..n :
                       \/ before[j, i]
                       \/ ~before[i, j] /\ j < i}) + 1
    IN  [p \in 1..n |-> seq[CHOOSE i \in 1..n : rank(i) = p]]

\* key=lambda p: p.timestamp, on timezone-aware UTC datetimes
EarlierInstant(p, q) == p.timestamp < q.timestamp

\* sorted(points, key=lambda p: p.timestamp)
SortedPoints(points) ==
    StableSort(points, [i, j \in 1..Len(points) |->
                           EarlierInstant(points[i], points[j])])

\* location_analyzer.py:165-173 (and 179-187, 226-235;
\* modern_analyzer_bridge.py:113-121, 141-154): one geo string and its time
\* inside a try block.  A string without exactly two parts adds nothing; one
\* float() rejects raises; a point whose UTC date is outside the range adds
\* nothing.  No branch looks at the size of lat or lon.
AppendGeoPoint(points, geo, t, range) ==
    IF geo.parts # 2 THEN [points |-> points, raised |-> FALSE]
    ELSE IF ~geo.numeric THEN [points |-> points, raised |-> TRUE]
    ELSE IF InRange(DateOf(t), range)
    THEN [points |-> Append(points, [timestamp |-> t, latitude |-> geo.lat,
                                     longitude |-> geo.lon]),
          raised |-> FALSE]
    ELSE [points |-> points, raised |-> FALSE]

\* location_analyzer.py:157-186  the activity branch: the start point, then
\* the end point; "except Exception: continue" after the start leaves the
\* object without looking at its end.
AnalyzerActivity(points, obj, range) ==
    LET activity == Val(obj, "activity")
        first == IF Has(obj, "startTime")
                 THEN AppendGeoPoint(points, activity.start,
                                     ToDatetimeUtc(Val(obj, "startTime")),
                                     range)
                 ELSE [points |-> points, raised |-> FALSE]
    IN  IF first.raised \/ ~Has(obj, "endTime") THEN first.points
        ELSE AppendGeoPoint(first.points, activity.end,
                            ToDatetimeUtc(Val(obj, "endTime")), range).points

\* location_analyzer.py:189-198  the placeVisit branch: E7 integers
AnalyzerPlaceVisit(points, obj, range) ==
    LET location == Val(obj, "placeVisit")
        dt == ToDatetimeUtc(location.startTimestamp)
    IN  IF InRange(DateOf(dt), range)
        THEN Append(points, [timestamp |-> dt,
                             latitude |-> location.latitudeE7,
                             longitude |-> location.longitudeE7])
        ELSE points

RECURSIVE PathPoints(_, _, _, _, _)
\* location_analyzer.py:223-235 and modern_analyzer_bridge.py:166-178
\* for point in obj["timelinePath"], from index i
PathPoints(points, path, i, start_dt, range) ==
    IF i > Len(path) THEN points
    ELSE PathPoints(AppendGeoPoint(points, path[i].point,
                                   start_dt + path[i].offset, range).points,
                    path, i + 1, start_dt, range)

\* location_analyzer.py:216-235 and modern_analyzer_bridge.py:159-178  the
\* timelinePath branch: nothing of a path that starts outside the range.
TimelinePathPoints(points, obj, range) ==
    LET start_dt == ToDatetimeUtc(Val(obj, "startTime"))
    IN  IF Has(obj, "startTime") /\ InRange(DateOf(start_dt), range)
        THEN PathPoints(points, Val(obj, "timelinePath"), 1, start_dt, range)
        ELSE points

RECURSIVE AnalyzerObjects(_, _, _, _)
\* location_analyzer.py:151-235  for i, obj in enumerate(timeline_objects);
\* no object of Entries has an activitySegment (201-213).
AnalyzerObjects(points, timeline_objects, i, range) ==
    IF i > Len(timeline_objects) THEN points
    ELSE LET obj == timeline_objects[i]
             new == IF Has(obj, "activity")
                    THEN AnalyzerActivity(points, obj, range)
                    ELSE IF Has(obj, "placeVisit")
                    THEN AnalyzerPlaceVisit(points, obj, range)
                    ELSE IF Has(obj, "timelinePath")
                    THEN TimelinePathPoints(points, obj, range)
                    ELSE points
         IN  AnalyzerObjects(new, timeline_objects, i + 1, range)

\* location_analyzer.py:136-238  LocationAnalyzer.parse_location_data
ParseLocationData(timeline_objects, range) ==
    SortedPoints(AnalyzerObjects(<<>>, timeline_objects, 1, range))

\* modern_analyzer_bridge.py:78-85  parse_stats
NewParseStats(timeline_objects) ==
    [total_entries |-> Len(timeline_objects), activities |-> 0, visits |-> 0,
     timeline_paths |-> 0, other_objects |-> 0, final_count |-> 0]

RECURSIVE ModernObjects(_, _, _, _)
\* modern_analyzer_bridge.py:93-184  for i, obj in enumerate(timeline_objects)
\* with cancel_check() false; st holds points and parse_stats.
ModernObjects(st, timeline_objects, i, range) ==
    IF i > Len(timeline_objects) THEN st
    ELSE LET obj == timeline_objects[i]
             points == st.points
             parse_stats == st.parse_stats
             new ==
                 IF Has(obj, "activity")
                 THEN [points |->
                          IF Has(obj, "startTime")
                          THEN AppendGeoPoint(points,
                                   Val(obj, "activity").start,
                                   ToDatetimeUtc(Val(obj, "startTime")),
                                   range).points
                          ELSE points,
                       parse_stats |-> [parse_stats EXCEPT !.activities = @ + 1]]
                 ELSE IF Has(obj, "visit")
                 THEN [points |->
                          IF Has(obj, "startTime")
                          THEN AppendGeoPoint(points,
                                   Val(obj, "visit").placeLocation,
                                   ToDatetimeUtc(Val(obj, "startTime")),
                                   range).points
                          ELSE points,
                       parse_stats |-> [parse_stats EXCEPT !.visits = @ + 1]]
                 ELSE IF Has(obj, "timelinePath")
                 THEN [points |-> TimelinePathPoints(points, obj, range),
                       parse_stats |->
                           [parse_stats EXCEPT !.timeline_paths = @ + 1]]
                 ELSE [points |-> points,
                       parse_stats |->
                           [parse_stats EXCEPT !.other_objects = @ + 1]]
         IN  ModernObjects(new, timeline_objects, i + 1, range)

\* modern_analyzer_bridge.py:68-202  run_modern_analysis up to the sort.
\* cancel_at is the iteration at which cancel_check() answers true (97-99),
\* 0 if it never does; that and an empty points list (197-199) both end in
\* "return None".
ModernParse(timeline_objects, range, cancel_at) ==
    LET before == IF cancel_at = 0 THEN timeline_objects
                  ELSE SubSeq(timeline_objects, 1, cancel_at - 1)
        st == ModernObjects([points |-> <<>>,
                             parse_stats |-> NewParseStats(timeline_objects)],
                            before, 1, range)
    IN  IF cancel_at # 0
        THEN [returned |-> "None", log |-> "Canceled during parsing.",
              points |-> <<>>, parse_stats |-> st.parse_stats]
        ELSE IF st.points = <<>>
        THEN [returned |-> "None", log |-> "No location data found.",
              points |-> <<>>, parse_stats |-> st.parse_stats]
        ELSE [returned |-> "points", log |-> "",
              points |-> SortedPoints(st.points),
              parse_stats |->
                  [st.parse_stats EXCEPT !.final_count = Len(st.points)]]

AnalyzerParseStage ==
    /\ stage_op = NoStage
    /\ \E range \in DateRanges :
          /\ stage_op' = [name |-> "parse_location_data", range |-> range]
          /\ stage_out' = [points |-> ParseLocationData(stage_in, range)]
    /\ UNCHANGED <<stage_in, geoVars, statVars, fileVars>>

ModernParseStage ==
    /\ stage_op = NoStage
    /\ \E range \in DateRanges, cancel_at \in 0..Len(stage_in) :
          /\ stage_op' = [name |-> "modern_parse", range |-> range,
                          cancel_at |-> cancel_at]
          /\ stage_out' = ModernParse(stage_in, range, cancel_at)
    /\ UNCHANGED <<stage_in, geoVars, statVars, fileVars>>

\* ------------------------------------ unified_app: LocationProcessor.process_file

\* unified_app.py:366 and 292  distance_threshold = 200 metres: as the
\* distanceMeters of an activity, and as a gap on a meridian with r = 6371 km
\* (a distance is below 200 m iff the gap is at most 1798).
DistanceThreshold == 200

DistanceThresholdGap == 1798

\* unified_app.py:326  duration_threshold = 600 seconds, in minutes.
DurationThreshold == 10

\* unified_app.py:331  probability_threshold = 0.1, in percent.
ProbabilityThreshold == 10

\* Latitude and longitude limits, in millionths of a degree.
MaxLatitude == 90000000

MaxLongitude == 180000000

\* unified_app.py:111-142  parse_coordinates: Some((lat, lon)) or Missing for
\* None.  Only the geo string branch compares with the limits.
ParseCoordinates(coord_input) ==
    IF "parts" \in DOMAIN coord_input
    THEN IF /\ coord_input.parts = 2 /\ coord_input.numeric
            /\ -MaxLatitude <= coord_input.lat
            /\ coord_input.lat <= MaxLatitude
            /\ -MaxLongitude <= coord_input.lon
            /\ coord_input.lon <= MaxLongitude
         THEN Some(<<coord_input.lat, coord_input.lon>>)
         ELSE Missing
    ELSE IF Has(coord_input, "latitudeE7") /\ Has(coord_input, "longitudeE7")
    THEN Some(<<Val(coord_input, "latitudeE7"),
                Val(coord_input, "longitudeE7")>>)
    ELSE Missing

\* f"geo:{coords[0]:.6f},{coords[1]:.6f}": six decimals print a value in
\* millionths digit for digit.
GeoText(coords) == Geo(coords[1], coords[2])

\* unified_app.py:278-307  process_activity: Some(entry) or Missing for None;
\* counted says stats['activities'] += 1 ran.
ProcessActivity(entry) ==
    LET activity == Val(entry, "activity")
        start_coords == ParseCoordinates(activity.start)
        end_coords == ParseCoordinates(activity.end)
    IN  IF \/ start_coords = Missing \/ end_coords = Missing
           \/ activity.distanceMeters < DistanceThreshold
           \/ ~Has(entry, "startTime") \/ ~Has(entry, "endTime")
        THEN Missing
        ELSE Some(Entry([startTime |-> Val(entry, "startTime"),
                         endTime |-> Val(entry, "endTime"),
                         activity |->
                             [start |-> GeoText(start_coords[1]),
                              end |-> GeoText(end_coords[1]),
                              distanceMeters |-> activity.distanceMeters]]))

\* unified_app.py:309-357  process_visit
ProcessVisit(entry) ==
    LET visit == Val(entry, "visit")
        coords == ParseCoordinates(visit.placeLocation)
        duration == ToDatetimeUtc(Val(entry, "endTime"))
                      - ToDatetimeUtc(Val(entry, "startTime"))
    IN  IF \/ coords = Missing
           \/ ~Has(entry, "startTime") \/ ~Has(entry, "endTime")
           \/ duration < DurationThreshold
           \/ visit.probability < ProbabilityThreshold
        THEN Missing
        ELSE Some(Entry([startTime |-> Val(entry, "startTime"),
                         endTime |-> Val(entry, "endTime"),
                         visit |->
                             [placeLocation |-> GeoText(coords[1]),
                              probability |-> visit.probability]]))

RECURSIVE PathFilter(_, _, _)
\* unified_app.py:369-403  for i, point in enumerate(timeline_path), from
\* index i (1 is the code's 0)
PathFilter(filtered_points, timeline_path, i) ==
    IF i > Len(timeline_path) THEN filtered_points
    ELSE LET coords == ParseCoordinates(timeline_path[i].point)
             kept == [point |-> GeoText(coords[1]),
                      offset |-> timeline_path[i].offset]
             last_point == filtered_points[Len(filtered_points)].point
         IN  IF coords = Missing
             THEN PathFilter(filtered_points, timeline_path, i + 1)
             ELSE IF i # 1 /\ filtered_points # <<>>
                       /\ HaversineDistance(last_point.lat, last_point.lon,
                                            coords[1][1], coords[1][2])
                              <= DistanceThresholdGap
             THEN PathFilter(filtered_points, timeline_path, i + 1)
             ELSE PathFilter(Append(filtered_points, kept), timeline_path,
                             i + 1)

\* unified_app.py:359-447  process_timeline_path; a path of Entries has at
\* most three points, fewer than sample_points would cut (419-437).
ProcessTimelinePath(entry) ==
    LET timeline_path == Val(entry, "timelinePath")
    IN  IF \/ timeline_path = <<>>
           \/ ~Has(entry, "startTime") \/ ~Has(entry, "endTime")
        THEN Missing
        ELSE Some(Entry([startTime |-> Val(entry, "startTime"),
                         endTime |-> Val(entry, "endTime"),
                         timelinePath |->
                             PathFilter(<<>>, timeline_path, 1)]))

\* unified_app.py:449-473  process_legacy_location: the entry itself is the
\* coordinate dict; the output times are timestamp.isoformat(), "+00:00".
ProcessLegacyLocation(entry) ==
    LET coords == ParseCoordinates(entry)
        timestamp == Val(entry, "timestampMs")
    IN  IF coords = Missing THEN Missing
        ELSE Some(Entry([startTime |-> Ts(timestamp, 0),
                         endTime |-> Ts(timestamp, 0),
                         visit |->
                             [placeLocation |-> GeoText(coords[1]),
                              probability |-> 50]]))

\* unified_app.py:261-276  process_entry: the shape chosen, and what its
\* handler returned.
ProcessEntry(entry) ==
    IF Has(entry, "activity")
    THEN [shape |-> "activities", processed |-> ProcessActivity(entry)]
    ELSE IF Has(entry, "visit")
    THEN [shape |-> "visits", processed |-> ProcessVisit(entry)]
    ELSE IF Has(entry, "timelinePath")
    THEN [shape |-> "timeline_paths",
          processed |-> ProcessTimelinePath(entry)]
    ELSE IF Has(entry, "timestampMs")
    THEN [shape |-> "visits", processed |-> ProcessLegacyLocation(entry)]
    ELSE [shape |-> "none", processed |-> Missing]

\* unified_app.py:196-222  one entry of fast_date_filter.  The year is read
\* off the first four characters of the text; from_dt and to_dt are midnights
\* of UTC.
IsRelevant(entry, from_date, to_date) ==
    /\ Has(entry, "startTime")
    /\ ~ \/ TextYear(Val(entry, "startTime")) < YearOfDate(from_date)
         \/ TextYear(Val(entry, "startTime")) > YearOfDate(to_date)
    /\ from_date * DayMinutes <= ToDatetimeUtc(Val(entry, "startTime"))
    /\ ToDatetimeUtc(Val(entry, "startTime")) < to_date * DayMinutes

\* unified_app.py:184-232  fast_date_filter
FastDateFilter(entries, from_date, to_date) ==
    SelectSeq(entries, LAMBDA entry : IsRelevant(entry, from_date, to_date))

RECURSIVE ProcessEntries(_, _, _)
\* unified_app.py:530-538  process every relevant entry, from index i; st
\* holds processed_entries and self.stats.
ProcessEntries(st, relevant_entries, i) ==
    IF i > Len(relevant_entries) THEN st
    ELSE LET r == ProcessEntry(relevant_entries[i])
         IN  ProcessEntries(
                 IF r.processed = Missing THEN st
                 ELSE [processed_entries |->
                           Append(st.processed_entries, r.processed[1]),
                       stats |-> [st.stats EXCEPT ![r.shape] = @ + 1]],
                 relevant_entries, i + 1)

\* key=lambda x: x['startTime'] on the texts: the wall-clock digits first,
\* then the offset, where "+" sorts before "-".
EarlierText(x, y) ==
    LET a == Val(x, "startTime")
        b == Val(y, "startTime")
    IN  \/ a.local < b.local
        \/ /\ a.local = b.local
           /\ \/ a.offset >= 0 /\ b.offset < 0
              \/ a.offset >= 0 /\ b.offset >= 0 /\ a.offset < b.offset
              \/ a.offset < 0 /\ b.offset < 0 /\ a.offset > b.offset

\* unified_app.py:475-582  process_file on the entries of a loaded file;
\* range is (from_date, to_date) of the settings.
ProcessFile(entries, range) ==
    LET from_date == range[1]
        to_date == range[2] + 1
        relevant_entries == FastDateFilter(entries, from_date, to_date)
        stats0 == [total_entries |-> Len(entries),
                   date_filtered |-> Len(relevant_entries),
                   activities |-> 0, visits |-> 0, timeline_paths |-> 0,
                   final_count |-> 0]
        st == ProcessEntries([processed_entries |-> <<>>, stats |-> stats0],
                             relevant_entries, 1)
    IN  IF relevant_entries = <<>>
        THEN [returned |-> "error",
              error |-> "No entries found in date range",
              data |-> <<>>, stats |-> stats0,
              relevant_entries |-> relevant_entries]
        ELSE [returned |-> "success", error |-> "",
              data |-> StableSort(st.processed_entries,
                                  [i, j \in 1..Len(st.processed_entries) |->
                                      EarlierText(st.processed_entries[i],
                                                  st.processed_entries[j])]),
              stats |-> [st.stats EXCEPT
                            !.final_count = Len(st.processed_entries)],
              relevant_entries |-> relevant_entries]

ProcessFileStage ==
    /\ stage_op = NoStage
    /\ \E range \in DateRanges :
          /\ stage_op' = [name |-> "process_file", range |-> range]
          /\ stage_out' = ProcessFile(stage_in, range)
    /\ UNCHANGED <<stage_in, geoVars, statVars, fileVars>>

ParseNext ==
    \/ LegacyParseStage
    \/ AnalyzerParseStage
    \/ ModernParseStage
    \/ ProcessFileStage

SpecParse == InitParse /\ [][ParseNext]_vars

\* ------------------------------------------- time ledgers and the jump list

\* location_analyzer.py:360 and modern_analyzer_bridge.py:342  10 miles: a
\* gap exceeds them iff it exceeds 144730.
TenMiles == 144730

\* What the provider answers for a point of PipePoints: a city by latitude,
\* two in one country and the third in a state of the United States.
GeocodeOf(point) ==
    [city |-> IF point.latitude < 1008000 THEN "Alpha"
              ELSE IF point.latitude < 1100000 THEN "Beta" ELSE "Gamma",
     state |-> IF point.latitude < 1100000 THEN "" ELSE "Ohio",
     country |-> IF point.latitude < 1100000 THEN "Xland"
                 ELSE "United States"]

\* location_analyzer.py:394-397, modern_analyzer_bridge.py:313-316 and
\* legacy_analyzer.py:157-160  the key of the by-state ledger
StateKey(result) ==
    IF result.country = "United States"
    THEN IF result.state # "" THEN result.state ELSE "Unknown US State"
    ELSE IF result.country # "" THEN result.country ELSE "Unknown"

\* f"{result.city}, {result.country}"
LocationOf(result) == result.city \o ", " \o result.country

\* A ledger that keeps the last time_diff of a key.
AddTimeOverwriting(ledger, key, time_diff) ==
    [k \in DOMAIN ledger \cup {key} |->
        IF k = key THEN time_diff ELSE ledger[k]]

\* defaultdict(float): ledger[key] += time_diff
AddTime(ledger, key, time_diff) ==
    [k \in DOMAIN ledger \cup {key} |->
        (IF k \in DOMAIN ledger THEN ledger[k] ELSE 0)
          + (IF k = key THEN time_diff ELSE 0)]

EmptyLedger == [k \in {} |-> 0]

\* point in geocode_results: geocode_points left out the points of
\* unresolved (a non-200 answer stores no result).
IsResolved(point, unresolved) == point \notin unresolved

\* An unbounded jump test.
IsJumpAnyDistance(last_location, location, distance) ==
    location # last_location

\* location_analyzer.py:352-360  location != last_location, then
\* distance > 10
IsJump(last_location, location, distance) ==
    location # last_location /\ distance > TenMiles

\* The ledger key an elapsed time is added under:
\*   location_analyzer.py:391       last_result.city, last_result.country
\*   modern_analyzer_bridge.py:306-311  city and country of result, the
\*                                  current point's
\*   legacy_analyzer.py:150-155     city of loc, the current point's
\*                                  (group_by = "by_city")
\* and for the by-state ledgers (state_time; legacy group_by = "by_state")
\* the StateKey of the same result.
LedgerKey(report, last_point, point) ==
    CASE report = "generate_time_reports" -> LocationOf(GeocodeOf(last_point))
      [] report = "generate_time_reports_state" ->
             StateKey(GeocodeOf(last_point))
      [] report = "modern_report" -> LocationOf(GeocodeOf(point))
      [] report = "modern_report_state" -> StateKey(GeocodeOf(point))
      [] report = "legacy_report_state" -> StateKey(GeocodeOf(point))
      [] OTHER -> GeocodeOf(point).city

RECURSIVE TimeReportLoop(_, _, _, _, _, _)
\* location_analyzer.py:382-401, modern_analyzer_bridge.py:300-320 and
\* legacy_analyzer.py:135-166  for point in points, from index i; last_point
\* is the resolved point met last (Missing before the first).  state_time
\* gets the same time_diff under the state or country of the same result.
TimeReportLoop(report, city_time, points, i, last_point, unresolved) ==
    IF i > Len(points) THEN city_time
    ELSE LET point == points[i]
             time_diff == point.timestamp - last_point[1].timestamp
         IN  IF ~IsResolved(point, unresolved)
             THEN TimeReportLoop(report, city_time, points, i + 1, last_point,
                                 unresolved)
             ELSE TimeReportLoop(report,
                      IF last_point = Missing THEN city_time
                      ELSE AddTime(city_time,
                                   LedgerKey(report, last_point[1], point),
                                   time_diff),
                      points, i + 1, Some(point), unresolved)

RECURSIVE JumpLoop(_, _, _, _, _)
\* location_analyzer.py:345-370 and modern_analyzer_bridge.py:328-352
\* for point in points, from index i
JumpLoop(jumps, points, i, last_point, unresolved) ==
    IF i > Len(points) THEN jumps
    ELSE LET point == points[i]
             location == LocationOf(GeocodeOf(point))
             last_location == LocationOf(GeocodeOf(last_point[1]))
             distance == HaversineDistance(last_point[1].latitude,
                                           last_point[1].longitude,
                                           point.latitude, point.longitude)
         IN  IF ~IsResolved(point, unresolved)
             THEN JumpLoop(jumps, points, i + 1, last_point, unresolved)
             ELSE JumpLoop(
                      IF /\ last_point # Missing
                         /\ IsJump(last_location, location, distance)
                      THEN Append(jumps,
                               [from_location |-> last_location,
                                to_location |-> location,
                                distance_miles |-> distance,
                                duration_hours |->
                                    TimeDiff(last_point[1], point),
                                timestamp |-> point.timestamp])
                      ELSE jumps,
                      points, i + 1, Some(point), unresolved)

\* location_analyzer.py:339-372  LocationAnalyzer.calculate_jumps
CalculateJumps(points, unresolved) ==
    JumpLoop(<<>>, points, 1, Missing, unresolved)

\* location_analyzer.py:374-403  LocationAnalyzer.generate_time_reports
GenerateTimeReports(points, unresolved) ==
    TimeReportLoop("generate_time_reports", EmptyLedger, points, 1, Missing,
                   unresolved)

\* The streams a report is made from: what the filter keeps of a sorted
\* list, and the points geocode_points returned no result for (at most one
\* place here).
ReportInputs ==
    {[points |-> FilterSignificantPoints(l, HalfMile, HalfHour),
      unresolved |-> u] :
        l \in {x \in PointLists : SortedByTimestamp(x)},
        u \in {{}} \cup {{p} : p \in PipePoints}}

InitReport ==
    /\ disk = EmptyCache /\ InitResolvers /\ InitStats /\ InitFile
    /\ stage_in \in ReportInputs
    /\ stage_op = NoStage
    /\ stage_out = <<>>

\* location_analyzer.py:437-439  analyze_location_history, step 4
AnalyzerReportStage ==
    /\ stage_op = NoStage
    /\ stage_op' = [name |-> "generate_time_reports"]
    /\ stage_out' =
          [jumps |-> CalculateJumps(stage_in.points, stage_in.unresolved),
           city_time |-> GenerateTimeReports(stage_in.points,
                                             stage_in.unresolved),
           state_time |-> TimeReportLoop("generate_time_reports_state",
                                         EmptyLedger, stage_in.points, 1,
                                         Missing, stage_in.unresolved)]
    /\ UNCHANGED <<stage_in, geoVars, statVars, fileVars>>

\* modern_analyzer_bridge.py:294-352  every point has a result (253-286).
ModernReportStage ==
    /\ stage_op = NoStage
    /\ stage_in.unresolved = {}
    /\ stage_op' = [name |-> "modern_report"]
    /\ stage_out' =
          [jumps |-> JumpLoop(<<>>, stage_in.points, 1, Missing, {}),
           city_time |-> TimeReportLoop("modern_report", EmptyLedger,
                                        stage_in.points, 1, Missing, {}),
           state_time |-> TimeReportLoop("modern_report_state", EmptyLedger,
                                         stage_in.points, 1, Missing, {})]
    /\ UNCHANGED <<stage_in, geoVars, statVars, fileVars>>

\* legacy_analyzer.py:128-176  reverse_geocode returns a dict for every
\* point; the jump CSV is written by another function.
\* group_by chooses the one ledger of the run (152-160).
LegacyReportStage ==
    /\ stage_op = NoStage
    /\ stage_in.unresolved = {}
    /\ \E report \in {"legacy_report", "legacy_report_state"} :
          /\ stage_op' = [name |-> report]
          /\ stage_out' =
                [jumps |-> <<>>,
                 city_time |-> TimeReportLoop(report, EmptyLedger,
                                              stage_in.points, 1, Missing,
                                              {})]
    /\ UNCHANGED <<stage_in, geoVars, statVars, fileVars>>

ReportNext ==
    \/ AnalyzerReportStage
    \/ ModernReportStage
    \/ LegacyReportStage

SpecReport == InitReport /\ [][ReportNext]_vars

\* ------------------------------------------------- whole runs and their outcome

\* location_analyzer.py:420-452  analyze_location_history: parse, filter,
\* geocode (every filtered point answered here), jumps and time reports,
\* export, and the dict it returns.  No step looks at whether a list is
\* empty.
AnalyzeLocationHistory(timeline_objects, range) ==
    LET points == ParseLocationData(timeline_objects, range)
        filtered_points == FilterSignificantPoints(points, HalfMile, HalfHour)
        jumps == CalculateJumps(filtered_points, {})
        city_time == GenerateTimeReports(filtered_points, {})
    IN  [returned |-> "dict",
         error |-> "",
         total_jumps |-> Len(jumps),
         cities_visited |-> Cardinality(DOMAIN city_time),
         jumps |-> jumps,
         exported |-> TRUE]

\* modern_analyzer_bridge.py:17-36  process_location_file around
\* run_modern_analysis (68-425): raises is whether the run throws (the file
\* cannot be read, 71-72), cancel_at the iteration at which cancel_check()
\* answers true.  "return None" at 36, at 99 and at 199.
ProcessLocationFile(timeline_objects, range, cancel_at, raises) ==
    LET parsed == ModernParse(timeline_objects, range, cancel_at)
        filtered_points == ModernFilter(parsed.points)
        jumps == JumpLoop(<<>>, filtered_points, 1, Missing, {})
        city_time == TimeReportLoop("modern_report", EmptyLedger,
                                    filtered_points, 1, Missing, {})
    IN  IF raises
        THEN [returned |-> "None", error |-> "", log |-> "Analysis failed"]
        ELSE IF parsed.returned = "None"
        THEN [returned |-> "None", error |-> "", log |-> parsed.log]
        ELSE [returned |-> "dict",
              error |-> "",
              log |-> "Results exported",
              total_jumps |-> Len(jumps),
              cities_visited |-> Cardinality(DOMAIN city_time),
              parse_stats |-> parsed.parse_stats]

\* unified_app.py:475-582  process_file, with the except branch at 578-582:
\* raises is whether loading the file throws (482-483).
ProcessFileRun(entries, range, raises) ==
    IF raises
    THEN [returned |-> "error", error |-> "str(e)"]
    ELSE ProcessFile(entries, range)

AnalyzerRunStage ==
    /\ stage_op = NoStage
    /\ \E range \in DateRanges :
          /\ stage_op' = [name |-> "analyze_location_history",
                          range |-> range, cancel_at |-> 0, raises |-> FALSE]
          /\ stage_out' = AnalyzeLocationHistory(stage_in, range)
    /\ UNCHANGED <<stage_in, geoVars, statVars, fileVars>>

ModernRunStage ==
    /\ stage_op = NoStage
    /\ \E range \in DateRanges, cancel_at \in 0..Len(stage_in),
          raises \in BOOLEAN :
          /\ stage_op' = [name |-> "process_location_file", range |-> range,
                          cancel_at |-> cancel_at, raises |-> raises]
          /\ stage_out' = ProcessLocationFile(stage_in, range, cancel_at,
                                              raises)
    /\ UNCHANGED <<stage_in, geoVars, statVars, fileVars>>

UnifiedRunStage ==
    /\ stage_op = NoStage
    /\ \E range \in DateRanges, raises \in BOOLEAN :
          /\ stage_op' = [name |-> "process_file_run", range |-> range,
                          cancel_at |-> 0, raises |-> raises]
          /\ stage_out' = ProcessFileRun(stage_in, range, raises)
    /\ UNCHANGED <<stage_in, geoVars, statVars, fileVars>>

\* unified_app.py:966-1144  analyze_in_background: the modern
\* process_location_file never raises (it returns None instead, 34-36), and
\* nothing between its return (1045-1059) and the final update (1115-1125)
\* looks at whether result is None beyond "if result and ..." (1085);
\* thrown is whether a statement of the task itself throws (1127-1144).
AnalyzeInBackground(timeline_objects, range, cancel_at, raises, thrown) ==
    LET result == ProcessLocationFile(timeline_objects, range, cancel_at,
                                      raises)
    IN  IF thrown
        THEN [step |-> "error", status |-> "FAILURE",
              message |-> "Analysis failed", result |-> "None"]
        ELSE [step |-> "complete", status |-> "SUCCESS",
              message |-> "Analysis completed successfully!",
              result |-> result.returned]

AnalyzeTaskStage ==
    /\ stage_op = NoStage
    /\ \E range \in DateRanges, cancel_at \in 0..Len(stage_in),
          raises \in BOOLEAN, thrown \in BOOLEAN :
          /\ stage_op' = [name |-> "analyze_in_background", range |-> range,
                          cancel_at |-> cancel_at, raises |-> raises,
                          thrown |-> thrown]
          /\ stage_out' = AnalyzeInBackground(stage_in, range, cancel_at,
                                              raises, thrown)
    /\ UNCHANGED <<stage_in, geoVars, statVars, fileVars>>

RunNext ==
    \/ AnalyzerRunStage
    \/ ModernRunStage
    \/ UnifiedRunStage
    \/ AnalyzeTaskStage

SpecRun == InitParse /\ [][RunNext]_vars

\* ------------------------------------ legacy_analyzer: generate_city_jump_csv

\* Length of the longest stream of stops given to the jump pass.
MaxStops == 5

\* legacy_analyzer.py:278,304-310  2 miles: a gap is under them iff it is at
\* most 28946, over them iff it exceeds 28946.
TwoMiles == 28946

\* legacy_analyzer.py:275  20 miles
TwentyMiles == 289460

\* legacy_analyzer.py:281  100 miles: distance < 100 iff the gap is at most
\* 1447301.
HundredMiles == 1447301

\* legacy_analyzer.py:275  1.5 hours, in minutes
NinetyMinutes == 90

\* geo_utils.reverse_geocode's answer for the stops of the model, by
\* latitude (all on the meridian of PipePoints): city, country and the
\* place name of the provider; every other coordinate is "unknown
\* location".
LocOf(lat) ==
    CASE lat = 45000012 -> [city |-> "Paris", country |-> "France",
                            place |-> ""]
      [] lat = 45020000 -> [city |-> "Versailles", country |-> "France",
                            place |-> ""]
      [] lat = 45100000 -> [city |-> "Orly", country |-> "France",
                            place |-> ""]
      [] lat = 46000000 -> [city |-> "Reims", country |-> "France",
                            place |-> ""]
      [] lat = 45600000 -> [city |-> "Dover", country |-> "United Kingdom",
                            place |-> "dover strait waters"]
      [] lat = -42000000 -> [city |-> "Tokyo", country |-> "Japan",
                             place |-> ""]
      [] lat = 42000000 -> [city |-> "Dubrovnik", country |-> "Croatia",
                            place |-> ""]
      [] lat = 42015000 -> [city |-> "Cavtat", country |-> "Croatia",
                            place |-> ""]
      [] OTHER -> [city |-> "Unknown", country |-> "",
                   place |-> "unknown location"]

StopLatitudes ==
    {45000012, 45020000, 45100000, 46000000, 45600000, -42000000, 42000000,
     42015000}

\* legacy_analyzer.py:243-246  the place label of a point
PlaceLabel(loc) ==
    IF loc.country # "United States" /\ loc.country # ""
    THEN IF loc.city # "Unknown" THEN loc.city \o ", " \o loc.country
         ELSE loc.country
    ELSE loc.city \o ", , USA"

\* legacy_analyzer.py:273  prev_city.split(", ")[-1]: what follows the last
\* ", " of the label PlaceLabel wrote for the previous point.
PrevCountry(prev_loc) ==
    IF prev_loc.country # "United States" /\ prev_loc.country # ""
    THEN prev_loc.country
    ELSE "USA"

\* legacy_analyzer.py:206-221 and 265  mode_map.get(raw_mode, "Unknown")
ModeMap(raw_mode) ==
    CASE raw_mode = "in train" -> "Train"
      [] raw_mode = "in passenger vehicle" -> "Car"
      [] raw_mode = "walking" -> "Walking"
      [] raw_mode = "in ferry" -> "Ferry"
      [] raw_mode = "slow_mobility" -> "Walking"
      [] raw_mode = "fast_mobility" -> "Car"
      [] raw_mode = "medium_mobility" -> "Car"
      [] raw_mode = "flying" -> "Flight"
      [] raw_mode = "sailing" -> "Ferry"
      [] raw_mode = "skiing" -> "Unknown"
      [] raw_mode = "unknown" -> "Unknown"
      [] raw_mode = "in subway" -> "Train"
      [] raw_mode = "in tram" -> "Train"
      [] raw_mode = "stationary" -> "Walking"
      [] OTHER -> "Unknown"

\* legacy_analyzer.py:223
CoastalCountries == {"Croatia", "Montenegro"}

\* legacy_analyzer.py:300  "waters" in place_name.lower() or "sea" in it
NamesWater(place_name) == place_name \in {"dover strait waters", "north sea"}

\* legacy_analyzer.py:307  "inland" in place_name.lower()
NamesInland(place_name) == place_name \in {"inland lake"}

\* legacy_analyzer.py:282  jump_cache_key, and 283 jump_cache_key_fallback
JumpKeyFallback(a, b) ==
    <<"jump:", RoundStr(a[1], 100), RoundStr(a[2], 100),
      RoundStr(b[1], 100), RoundStr(b[2], 100)>>

\* legacy_analyzer.py:304-314  the mode of the jump-cache miss branch
WaterMode(is_water, country, place_name, distance) ==
    IF is_water \/ (country \in CoastalCountries /\ distance <= TwoMiles)
    THEN IF distance > TwoMiles THEN "Ferry" ELSE "Boat"
    ELSE IF /\ country \in CoastalCountries
            /\ distance > TwoMiles
            /\ ~NamesInland(place_name)
    THEN "Ferry"
    ELSE IF distance > TwoMiles THEN "Car"
    ELSE "Walking"

\* legacy_analyzer.py:269-317  "Use Google's mode if reliable", else the
\* fallbacks; cache is the jump: part of geo_utils.geo_cache, water whether
\* a live is_over_water check of the jump's points answers True.
FallbackMode(mode, raw_mode, prev_loc, prev_coords, loc, coords, distance, duration, cache, water) ==
    LET country == loc.country
        prev_country == PrevCountry(prev_loc)
        is_international == /\ country # prev_country
                            /\ country # "Unknown"
                            /\ prev_country # "Unknown"
        jump_cache_key == JumpKey(prev_coords, coords)
        jump_cache_key_fallback == JumpKeyFallback(prev_coords, coords)
        is_water == water \/ NamesWater(loc.place)
    IN  IF mode \in {"Flight", "Train", "Ferry", "Walking"}
        THEN [mode |-> mode, cache |-> cache, branch |-> "google"]
        ELSE IF /\ raw_mode \in {"in passenger vehicle", "unknown"}
                /\ is_international
                /\ (distance > TwentyMiles \/ duration < NinetyMinutes)
        THEN [mode |-> "Flight", cache |-> cache, branch |-> "international"]
        ELSE IF /\ raw_mode \in {"unknown", "walking"}
                /\ country \in CoastalCountries
                /\ distance <= TwoMiles
        THEN [mode |-> "Boat", cache |-> cache, branch |-> "coastal"]
        ELSE IF HalfMile < distance /\ distance <= HundredMiles
        THEN IF jump_cache_key \in DOMAIN cache
             THEN [mode |-> mode, cache |-> cache, branch |-> "hit"]
             ELSE IF jump_cache_key_fallback \in DOMAIN cache
             THEN [mode |-> mode, cache |-> cache, branch |-> "hit"]
             ELSE [mode |-> WaterMode(is_water, country, loc.place, distance),
                   cache |-> [k \in DOMAIN cache \cup {jump_cache_key} |->
                                 IF k = jump_cache_key THEN is_water
                                 ELSE cache[k]],
                   branch |-> "miss"]
        ELSE [mode |-> mode, cache |-> cache, branch |-> "none"]

\* legacy_analyzer.py:320-322  "Time-based validation"
TimeValidated(mode, distance, duration) ==
    IF /\ mode \in {"Ferry", "Car", "Train"}
       /\ duration < HalfHour
       /\ distance > TenMiles
    THEN "Flight"
    ELSE mode

\* A restriction that looks at the distance alone.
RestrictWalkingByDistance(mode, distance, duration) ==
    IF mode = "Walking" /\ distance > TwoMiles THEN "Car" ELSE mode

\* legacy_analyzer.py:325-327  "Restrict Walking"
RestrictWalking(mode, distance, duration) ==
    IF mode = "Walking" /\ (distance > TwoMiles \/ duration > HalfHour)
    THEN "Car"
    ELSE mode

\* legacy_analyzer.py:254-335  one recorded jump: the row appended to rows
\* and the cache left behind.  A coordinate pair is <<lat, lon>>.
JumpRow(raw_mode, prev_loc, prev_coords, prev_dt, loc, coords, dt, cache, water) ==
    LET distance == HaversineDistance(prev_coords[1], prev_coords[2],
                                      coords[1], coords[2])
        duration == dt - prev_dt
        fb == FallbackMode(ModeMap(raw_mode), raw_mode, prev_loc,
                           prev_coords, loc, coords, distance, duration,
                           cache, water)
    IN  [row |-> [date |-> prev_dt,
                  from |-> PlaceLabel(prev_loc),
                  to |-> PlaceLabel(loc),
                  mode |-> RestrictWalking(
                               TimeValidated(fb.mode, distance, duration),
                               distance, duration),
                  distance |-> distance,
                  duration |-> duration,
                  raw_mode |-> raw_mode,
                  branch |-> fb.branch],
         cache |-> fb.cache]

\* A key that takes the two labels in either order.
JumpKeyOfLabelsUnordered(prev_city, place) == {prev_city, place}

\* legacy_analyzer.py:249  jump_key = f"{prev_city}:{place}"
JumpKeyOfLabels(prev_city, place) == <<prev_city, place>>

RECURSIVE JumpPass(_, _, _, _, _, _)
\* legacy_analyzer.py:234-340  for i, (dt, lat, lon) in enumerate(coords),
\* from index i (1-based); st holds rows, unique_jumps, the jump: part of
\* geo_cache and prev (Missing before the first point, else the point
\* prev_city, prev_coords and prev_dt come from).  A repeated jump_key
\* leaves the iteration by "continue", before line 338.
JumpPass(st, coords, activities, i, water, cancel_at) ==
    IF i > Len(coords) THEN [st EXCEPT !.returned = "mode_counts"]
    ELSE IF i = cancel_at THEN [st EXCEPT !.returned = "None"]
    ELSE LET dt == coords[i][1]
             lat == coords[i][2]
             lon == coords[i][3]
             loc == LocOf(lat)
             place == PlaceLabel(loc)
             here == [loc |-> loc, coords |-> <<lat, lon>>, dt |-> dt]
             prev_city == PlaceLabel(st.prev[1].loc)
             jump_key == JumpKeyOfLabels(prev_city, place)
             raw_mode == IF i <= Len(activities) THEN activities[i]
                         ELSE "Unknown"
             jump == JumpRow(raw_mode, st.prev[1].loc, st.prev[1].coords,
                             st.prev[1].dt, loc, <<lat, lon>>, dt, st.cache,
                             water)
         IN  IF st.prev # Missing /\ place # prev_city
             THEN IF jump_key \in st.unique_jumps
                  THEN JumpPass(st, coords, activities, i + 1, water,
                                cancel_at)
                  ELSE JumpPass([st EXCEPT
                                    !.unique_jumps = @ \cup {jump_key},
                                    !.rows = Append(@, jump.row),
                                    !.cache = jump.cache,
                                    !.prev = Some(here)],
                                coords, activities, i + 1, water, cancel_at)
             ELSE JumpPass([st EXCEPT !.prev = Some(here)], coords,
                           activities, i + 1, water, cancel_at)

\* legacy_analyzer.py:197-360  generate_city_jump_csv with group_by =
\* "by_city": cancel_at is the iteration at which cancel_check() answers
\* true, 0 if never.  The jump CSV is written after the loop (346-360).
GenerateCityJumpCsv(coords, activities, cache, water, cancel_at) ==
    LET st == JumpPass([rows |-> <<>>, unique_jumps |-> {}, cache |-> cache,
                        prev |-> Missing, returned |-> ""],
                       coords, activities, 1, water, cancel_at)
    IN  [returned |-> st.returned,
         rows |-> st.rows,
         cache |-> st.cache,
         jump_csv |-> st.returned # "None"]

\* The raw activity labels of the model: some of mode_map, one absent from
\* it.
RawModes ==
    {"in train", "in passenger vehicle", "walking", "in ferry", "flying",
     "unknown", "cycling"}

\* Minutes between the two points of a single jump.
JumpMinutes == {20, 60, 840}

\* One jump: two stops in different places, a raw label for the second, and
\* a jump cache that is empty or holds the jump under its 5-decimal or its
\* 4-decimal key.
SingleJumps ==
    UNION {{[coords |-> <<<<NewYear, ab[1], 2000000>>,
                          <<NewYear + m, ab[2], 2000000>>>>,
             activities |-> <<"unknown", r>>,
             cache |-> c] :
                m \in JumpMinutes, r \in RawModes,
                c \in {[k \in {} |-> TRUE]}
                        \cup {[k \in {key} |-> v] :
                                 key \in {JumpKey(<<ab[1], 2000000>>,
                                                  <<ab[2], 2000000>>),
                                          JumpKeyFallback(
                                              <<ab[1], 2000000>>,
                                              <<ab[2], 2000000>>)},
                                 v \in BOOLEAN}} :
              ab \in {p \in {45000012, 42000000} \X StopLatitudes :
                         p[1] # p[2]}}

RECURSIVE StopsOver(_, _)
\* Streams of n stops an hour apart among three towns.
StopsOver(S, n) ==
    IF n = 0 THEN {<<>>}
    ELSE {Append(s, <<NewYear + 60 * (n - 1), lat, 2000000>>) :
              s \in StopsOver(S, n - 1), lat \in S}

Tours ==
    {[coords |-> s, activities |-> [i \in 1..Len(s) |-> "in passenger vehicle"],
      cache |-> [k \in {} |-> TRUE]] :
         s \in UNION {StopsOver({45000012, 45100000, 46000000}, n) :
                         n \in 0..MaxStops}}

InitJumps ==
    /\ disk = EmptyCache /\ InitResolvers /\ InitStats /\ InitFile
    /\ stage_in \in SingleJumps \cup Tours
    /\ stage_op = NoStage
    /\ stage_out = <<>>

LegacyJumpStage ==
    /\ stage_op = NoStage
    /\ \E water \in BOOLEAN, cancel_at \in 0..Len(stage_in.coords) :
          /\ stage_op' = [name |-> "generate_city_jump_csv",
                          water |-> water, cancel_at |-> cancel_at]
          /\ stage_out' = GenerateCityJumpCsv(stage_in.coords,
                                              stage_in.activities,
                                              stage_in.cache, water,
                                              cancel_at)
    /\ UNCHANGED <<stage_in, geoVars, statVars, fileVars>>

\* legacy_analyzer.py:16-195  process_location_file from the loaded file on,
\* coords being the sorted points left by the parse and the deduplication
\* (38-125).  cancel_phase names the loop in which cancel_check() first
\* answers true: "parsing" (39-41, 78-80), "geocoding" (136-141), "jumps"
\* (235-237), or "none"; cancel_at is the iteration of that loop.  The
\* place-days CSV is written by export_monthly_csv (181) between the
\* geocoding loop and generate_city_jump_csv (186), whose None is returned
\* as mode_counts (195).
LegacyProcessLocationFile(coords, activities, cache, water, cancel_phase, cancel_at) ==
    LET jump_pass == GenerateCityJumpCsv(
                         coords, activities, cache, water,
                         IF cancel_phase = "jumps" THEN cancel_at ELSE 0)
    IN  IF cancel_phase = "parsing"
        THEN [returned |-> "None", log |-> "Canceled during parsing.",
              place_days_csv |-> FALSE, jump_csv |-> FALSE]
        ELSE IF coords = <<>>
        THEN [returned |-> "None", log |-> "No location data found.",
              place_days_csv |-> FALSE, jump_csv |-> FALSE]
        ELSE IF cancel_phase = "geocoding"
        THEN [returned |-> "None", log |-> "Canceled during geocoding.",
              place_days_csv |-> FALSE, jump_csv |-> FALSE]
        ELSE [returned |-> jump_pass.returned,
              log |-> IF jump_pass.returned = "None"
                      THEN "Canceled during city jump generation."
                      ELSE "",
              place_days_csv |-> TRUE,
              jump_csv |-> jump_pass.jump_csv]

LegacyRunStage ==
    /\ stage_op = NoStage
    /\ \E water \in BOOLEAN,
          cancel_phase \in {"none", "parsing", "geocoding", "jumps"},
          cancel_at \in 0..Len(stage_in.coords) :
          /\ (cancel_phase = "none") <=> (cancel_at = 0)
          /\ stage_op' = [name |-> "process_location_file", water |-> water,
                          cancel_phase |-> cancel_phase,
                          cancel_at |-> cancel_at]
          /\ stage_out' = LegacyProcessLocationFile(
                              stage_in.coords, stage_in.activities,
                              stage_in.cache, water, cancel_phase, cancel_at)
    /\ UNCHANGED <<stage_in, geoVars, statVars, fileVars>>

JumpsNext ==
    \/ LegacyJumpStage
    \/ LegacyRunStage

SpecJumps == InitJumps /\ [][JumpsNext]_vars

\* ================================================================== claims

\* A provider result that names a place, as opposed to a failure placeholder
\* or the open-water entry of an empty answer.
IsSuccess(e) == e.place \notin FailurePlaces \cup {"open water"}

\* The coordinates reverse_geocode has written an entry for whose written
\* key is one of the two keys a lookup of c tries.
KeyedBy(c) == \E w \in written_for : Key5(w) \in {Key5(c), Key4(c)}

\* ---- C1 ----
\* C1: when a resolve call has returned and the call before it was given the
\* same set of coordinates, the second call sent no provider request and
\* returned the same results as the first, whatever the first call's lookups
\* ended with.
C1_SecondResolveIdentical ==
    (/\ rpc = "returned"
     /\ prev.impl = impl
     /\ Range(prev.coordinates) = Range(coordinates))
    => (net = 0 /\ results = prev.results)

\* ---- C2 ----
\* C2 as stated: a reverse_geocode lookup of a coordinate an earlier lookup
\* wrote an entry for, or of such a coordinate rounded to 4 decimals, is a
\* cache hit (one hit counted) and sends no request.
C2_CoarserCoordinateHits ==
    (last.same \/ last.coarse) => (last.hits = 1 /\ last.sent = 0)

\* C2 amended: a lookup of a coordinate whose 5-decimal key or 4-decimal key
\* equals the key an earlier lookup wrote (the same coordinate included) is a
\* cache hit (one hit counted) and sends no request; and
\* batch_reverse_geocode puts every such coordinate in its results from the
\* cache and never among the uncached ones.
C2_WrittenKeyHits ==
    /\ (last.same \/ last.keyed) => (last.hits = 1 /\ last.sent = 0)
    /\ impl = "batch" =>
          \A c \in Range(coordinates) :
             KeyedBy(c) =>
                /\ c \in DOMAIN results
                /\ results[c] = CachedEntry(geo_cache, c)
                /\ c \notin Range(uncached)

\* A lookup answered through the 4-decimal fallback key: the coordinate
\* itself was never written, another coordinate's written key matches.
C2_Witness ==
    /\ last.keyed /\ ~last.same /\ last.hits = 1
    /\ Key5(last.c) \notin DOMAIN geo_cache

\* ---- C3 ----
\* C3: a resolve call never raises, and when it has returned its results
\* hold an entry for every coordinate it was given, whatever the provider
\* answered.
C3_EveryCoordinateResolved ==
    /\ rpc # "raised"
    /\ rpc = "returned" => \A c \in Range(coordinates) : c \in DOMAIN results

C5_RetryAfter429Succeeds ==
    [][\A i \in DOMAIN tasks :
          (/\ impl = "batch" /\ impl' = "batch"
           /\ i \in DOMAIN tasks'
           /\ tasks[i].pc = "sent"
           /\ tasks'[i].pc = "done"
           /\ tasks'[i].hist = <<"s429", "ok">>)
          => (/\ tasks'[i].result = SuccessResult(tasks[i].c)
              /\ tasks'[i].sleeps = 1
              /\ tasks'[i].errs = 0
              /\ stats'.errors = stats.errors
              /\ stats'.api_calls = stats.api_calls + 1
              /\ Key5(tasks[i].c) \in DOMAIN geo_cache'
              /\ geo_cache'[Key5(tasks[i].c)] = tasks'[i].result)]_vars

\* A lookup has completed after one 429 and one 200.
C5_Witness ==
    /\ impl = "batch"
    /\ \E i \in DOMAIN tasks :
          /\ tasks[i].pc = "done"
          /\ tasks[i].hist = <<"s429", "ok">>
          /\ IsSuccess(tasks[i].result)

\* ---- C6 ----
\* C6: a lookup of batch_reverse_geocode sends at most two provider
\* requests: after a second 429 it has returned a failure placeholder
\* instead of sleeping and retrying again.
C6_AtMostOneRetry ==
    impl = "batch" =>
       \A i \in DOMAIN tasks :
          /\ Len(tasks[i].hist) <= 2
          /\ Count429(tasks[i].hist) = 2 =>
                (tasks[i].pc = "done" /\ IsFailure(tasks[i].result))

\* The entry a finished resolve call's cache holds for a coordinate: the
\* module's geo_cache under the 5-decimal key for batch_reverse_geocode, the
\* analyzer's geocode_cache under the coord_key for geocode_points.
CacheOfCall == IF impl = "batch" THEN geo_cache ELSE geocode_cache

KeyOfCall(c) == IF impl = "batch" THEN Key5(c) ELSE CoordKey(c)

\* ---- C7 ----
\* C7: no step replaces a cache entry that holds a successful provider
\* result by a failure placeholder.
C7_SuccessNeverReplacedByFailure ==
    [][\A k \in DOMAIN geo_cache :
          IsSuccess(geo_cache[k]) =>
             (k \in DOMAIN geo_cache' /\ ~IsFailure(geo_cache'[k]))]_vars

\* ---- C8 ----
\* C8: when a resolve call has returned, every result it returns is in the
\* in-memory cache under its coordinate's key, and the call wrote the cache
\* file exactly once.
C8_ResultsCachedSavedOnce ==
    rpc = "returned" =>
       /\ \A c \in DOMAIN results :
             /\ KeyOfCall(c) \in DOMAIN CacheOfCall
             /\ CacheOfCall[KeyOfCall(c)] = results[c]
       /\ saves = 1

\* ---- C9 ----
\* C9: after a load of the cache file followed by a save, by the module's
\* pair or by the analyzer's pair, every key the file held before is still
\* in the file, with the same entry or, for a place object, one that loads
\* to the same result.
C9_RoundTripKeepsEntries ==
    fpc \in {"module_saved", "analyzer_saved"} =>
       \A k \in DOMAIN disk_before :
          /\ k \in DOMAIN disk
          /\ \/ disk[k] = disk_before[k]
             \/ /\ IsDict(disk[k]) /\ IsDict(disk_before[k])
                /\ LoadResult(disk[k]) = LoadResult(disk_before[k])

\* ---- C10 ----
\* C10: with threads calling the methods of one GeocodingStats object in any
\* interleaving, the dict a get_stats call returned has, in each family, a
\* total equal to its cache_hits + api_calls + errors; and whenever no
\* thread is inside a method body the counters are what the completed calls
\* give when run one after the other: no increment is lost.
C10_StatsConsistent ==
    /\ snap.geocoding.total =
          snap.geocoding.cache_hits + snap.geocoding.api_calls
            + snap.geocoding.errors
    /\ snap.water_detection.total =
          snap.water_detection.cache_hits + snap.water_detection.api_calls
            + snap.water_detection.errors
    /\ (\A t \in Threads : th[t].pc # "run") => stats = expected

\* Two threads have each completed a recording call and both increments are
\* in the counters.
C10_Witness ==
    /\ \A t \in Threads : th[t].pc = "idle"
    /\ th[1].op \in {"record_cache_hit", "record_api_call", "record_error"}
    /\ th[2].op \in {"record_cache_hit", "record_api_call", "record_error"}
    /\ GetStats(stats).geocoding.total + GetStats(stats).water_detection.total
         >= 2

\* ---- C11 ----
RECURSIVE IsSubsequenceFrom(_, _, _, _)
\* sub[i..] can be matched, in order, with elements of full[j..], each element
\* of full used at most once.
IsSubsequenceFrom(sub, i, full, j) ==
    IF i > Len(sub) THEN TRUE
    ELSE IF j > Len(full) THEN FALSE
    ELSE IF sub[i] = full[j] THEN IsSubsequenceFrom(sub, i + 1, full, j + 1)
    ELSE IsSubsequenceFrom(sub, i, full, j + 1)

IsFilterStage ==
    stage_op.name \in {"filter_significant_points", "modern_filter",
                       "legacy_dedup"}

\* C11: the list a threshold filter returns is a subsequence of the list it
\* was given (same relative order, nothing added, nothing taken twice), and
\* when the input is not empty its first element is the input's first point.
C11_FilterReturnsSubsequence ==
    IsFilterStage =>
        /\ IsSubsequenceFrom(stage_out, 1, stage_in, 1)
        /\ stage_in # <<>> => stage_out # <<>> /\ stage_out[1] = stage_in[1]

\* A filter dropped a point in the middle of three and kept the points around
\* it.
C11_Witness ==
    /\ IsFilterStage
    /\ Len(stage_in) = 3
    /\ stage_out = <<stage_in[1], stage_in[3]>>
    /\ stage_in[2] # stage_in[1] /\ stage_in[2] # stage_in[3]

\* ---- C12 ----
\* The thresholds the filter that ran compares with.
StageMinDistance ==
    CASE stage_op.name = "filter_significant_points" ->
             stage_op.min_distance_filter
      [] stage_op.name = "modern_filter" -> HalfMile
      [] OTHER -> LegacyMiles

StageMinTime ==
    CASE stage_op.name = "filter_significant_points" ->
             stage_op.min_time_filter
      [] stage_op.name = "modern_filter" -> HalfHour
      [] OTHER -> LegacyMinutes

RECURSIVE KeptAt(_, _)
\* The claim's rule, by position in the input: the first point is kept, and a
\* later point is kept iff it is farther than the minimum distance from, or
\* later by more than the minimum time than, the kept point nearest before
\* it.
KeptAt(points, i) ==
    \/ i = 1
    \/ LET j == CHOOSE j \in 1..(i - 1) :
                    /\ KeptAt(points, j)
                    /\ \A k \in (j + 1)..(i - 1) : ~KeptAt(points, k)
       IN  \/ Abs(points[i].latitude - points[j].latitude) > StageMinDistance
           \/ points[i].timestamp - points[j].timestamp > StageMinTime

RECURSIVE KeptFrom(_, _)
KeptFrom(points, i) ==
    IF i > Len(points) THEN <<>>
    ELSE (IF KeptAt(points, i) THEN <<points[i]>> ELSE <<>>)
             \o KeptFrom(points, i + 1)

\* C12: a threshold filter keeps a point after the first iff its distance
\* from the most recently kept point exceeds the minimum distance or the time
\* since the most recently kept point exceeds the minimum time, always
\* comparing with the last kept point and not with the previous input point;
\* with thresholds (0.5 miles, 0.5 hours) two points 0.05 miles and 2 minutes
\* apart give one kept point.
C12_KeptIffFarOrLateFromLastKept ==
    IsFilterStage =>
        /\ stage_out = KeptFrom(stage_in, 1)
        /\ (/\ stage_in = <<PointA, PointB>>
            /\ StageMinDistance = HalfMile
            /\ StageMinTime = HalfHour) => stage_out = <<PointA>>

\* With the default thresholds, a point 0.35 miles and 20 minutes from the
\* first was dropped and the next one, 0.69 miles from the first but only
\* 0.35 miles and 5 minutes from the dropped one, was kept.
C12_Witness ==
    /\ stage_op.name \in {"filter_significant_points", "modern_filter"}
    /\ StageMinDistance = HalfMile
    /\ StageMinTime = HalfHour
    /\ stage_in = <<PointA, PointC, PointD>>
    /\ stage_out = <<PointA, PointD>>

\* ---- C13 ----
KeyOfPoint(p) == LegacyCoordKey(p.latitude, p.longitude, p.timestamp)

RECURSIVE FirstOfEachKey(_, _)
\* The elements of met, from index i on, that no earlier element of met
\* shares its 5-decimal coordinate and 10-minute bucket with.
FirstOfEachKey(met, i) ==
    IF i > Len(met) THEN <<>>
    ELSE (IF \A k \in 1..(i - 1) : KeyOfPoint(met[k]) # KeyOfPoint(met[i])
          THEN <<met[i]>> ELSE <<>>) \o FirstOfEachKey(met, i + 1)

\* C13: in the legacy pipeline, among the parsed points that share a 5-decimal
\* rounded coordinate and a 10-minute bucket only the first one met is kept,
\* and the threshold pass works on the points that this deduplication kept.
C13_OnePointPerCoordinateAndBucket ==
    stage_op.name = "legacy_parse" =>
        /\ stage_out.coords = FirstOfEachKey(stage_out.met, 1)
        /\ \A i, j \in 1..Len(stage_out.coords) :
              i # j => KeyOfPoint(stage_out.coords[i])
                           # KeyOfPoint(stage_out.coords[j])
        /\ IsSubsequenceFrom(stage_out.deduped, 1, stage_out.coords, 1)

\* Two activities that start at (1.000012, 2.0) 01:40 and (1.000014, 2.0)
\* 01:43 UTC were parsed and only the first is in coords.
C13_Witness ==
    /\ stage_op.name = "legacy_parse"
    /\ stage_in = <<Walk, WalkAgain>>
    /\ Len(stage_out.met) = 2
    /\ Len(stage_out.coords) = 1
    /\ stage_out.coords[1].latitude = CoordA[1]
    /\ stage_out.deduped = stage_out.coords

\* ---- C14 ----
\* C14: whatever the order of the records in the file, and also when their
\* timestamps carry different UTC offsets, the sequence a parser returns is
\* in non-decreasing order of the absolute UTC instant.
C14_ParserOutputInUtcOrder ==
    /\ stage_op.name \in {"parse_location_data", "modern_parse"} =>
          SortedByTimestamp(stage_out.points)
    /\ stage_op.name = "process_file" =>
          \A i \in 1..(Len(stage_out.data) - 1) :
              ToDatetimeUtc(Val(stage_out.data[i], "startTime"))
                  <= ToDatetimeUtc(Val(stage_out.data[i + 1], "startTime"))

\* ---- C15 ----
\* The timeline objects of a list that carry none of the four markers.
Unrecognised(entries) ==
    Cardinality({i \in 1..Len(entries) :
        /\ ~Has(entries[i], "activity") /\ ~Has(entries[i], "visit")
        /\ ~Has(entries[i], "timelinePath")
        /\ ~Has(entries[i], "timestampMs")})

\* C15: every input record is handled as exactly one shape (the first of
\* activity, visit, path, legacy point whose marker it carries) or, with no
\* marker, skipped and counted, so that at the end of parsing the per-shape
\* counts plus the unrecognised count equal the number of input records.
\* For process_file the records are those handed to process_entry, and the
\* records without a marker are counted here, since its stats have no
\* counter for them.
C15_ShapeCountsAddUp ==
    /\ stage_op.name = "modern_parse" /\ stage_op.cancel_at = 0 =>
          stage_out.parse_stats.activities + stage_out.parse_stats.visits
            + stage_out.parse_stats.timeline_paths
            + stage_out.parse_stats.other_objects = Len(stage_in)
    /\ stage_op.name = "process_file" /\ stage_out.returned = "success" =>
          stage_out.stats.activities + stage_out.stats.visits
            + stage_out.stats.timeline_paths
            + Unrecognised(stage_out.relevant_entries)
              = Len(stage_out.relevant_entries)

\* ---- C16 ----
\* start_date 00:00 UTC <= t < (end_date + 1 day) 00:00 UTC
InstantInRange(t, range) ==
    range[1] * DayMinutes <= t /\ t < (range[2] + 1) * DayMinutes

\* C16: date filtering retains an entry iff its UTC timestamp t satisfies
\* start_date 00:00 UTC <= t < (end_date + 1 day) 00:00 UTC, also when the
\* text of the timestamp shows another calendar year than the UTC instant
\* has; and the points parse_location_data returns lie in that interval.
C16_RetainedIffInstantInRange ==
    /\ stage_op.name = "process_file" =>
          \A i \in 1..Len(stage_in) :
              Has(stage_in[i], "startTime") =>
                  ((\E k \in 1..Len(stage_out.relevant_entries) :
                        stage_out.relevant_entries[k] = stage_in[i])
                    <=> InstantInRange(
                            ToDatetimeUtc(Val(stage_in[i], "startTime")),
                            stage_op.range))
    /\ stage_op.name = "parse_location_data" =>
          \A k \in 1..Len(stage_out.points) :
              InstantInRange(stage_out.points[k].timestamp, stage_op.range)

\* ---- C17 ----
\* |lat| <= 90 and |lon| <= 180
OnTheGlobe(lat, lon) == Abs(lat) <= MaxLatitude /\ Abs(lon) <= MaxLongitude

\* C17: no point with |latitude| > 90 or |longitude| > 180 is in a parser's
\* output, whatever record shape and coordinate encoding it came from.
C17_NoPointOffTheGlobe ==
    /\ stage_op.name \in {"parse_location_data", "modern_parse"} =>
          \A k \in 1..Len(stage_out.points) :
              OnTheGlobe(stage_out.points[k].latitude,
                         stage_out.points[k].longitude)
    /\ stage_op.name = "process_file" =>
          \A k \in 1..Len(stage_out.data) :
              LET entry == stage_out.data[k]
              IN  /\ Has(entry, "activity") =>
                        /\ OnTheGlobe(Val(entry, "activity").start.lat,
                                      Val(entry, "activity").start.lon)
                        /\ OnTheGlobe(Val(entry, "activity").end.lat,
                                      Val(entry, "activity").end.lon)
                  /\ Has(entry, "visit") =>
                        OnTheGlobe(Val(entry, "visit").placeLocation.lat,
                                   Val(entry, "visit").placeLocation.lon)
                  /\ Has(entry, "timelinePath") =>
                        \A n \in 1..Len(Val(entry, "timelinePath")) :
                            OnTheGlobe(
                                Val(entry, "timelinePath")[n].point.lat,
                                Val(entry, "timelinePath")[n].point.lon)

\* ---- C19 ----
\* The points of a report's input that have a geocoding result, in order.
GeocodedStream ==
    SelectSeq(stage_in.points,
              LAMBDA p : IsResolved(p, stage_in.unresolved))

\* The minutes between the adjacent pairs of the stream whose earlier point
\* resolves to the city.
RECURSIVE MinutesAfter(_, _, _)
MinutesAfter(city, stream, i) ==
    IF i >= Len(stream) THEN 0
    ELSE (IF GeocodeOf(stream[i]).city = city
          THEN stream[i + 1].timestamp - stream[i].timestamp ELSE 0)
             + MinutesAfter(city, stream, i + 1)

\* The cities some earlier point of an adjacent pair resolves to.
EarlierCities(stream) ==
    {GeocodeOf(stream[i]).city : i \in 1..(Len(stream) - 1)}

\* The ledger key of a city in the report that ran.
KeyOfCity(city) ==
    IF stage_op.name = "legacy_report" THEN city
    ELSE LocationOf(CHOOSE r \in {GeocodeOf(p) : p \in PipePoints} :
                        r.city = city)

\* C19: in each aggregation (generate_time_reports, run_modern_analysis,
\* legacy process_location_file), for every adjacent pair (p, q) of the
\* geocoded stream the time between them is added to the ledger entry of
\* the place resolved for p, the earlier point, and never to q's: the ledger
\* holds, for each place, the sum of the times that follow its points.
C19_TimeGoesToEarlierPlace ==
    stage_op.name \in {"generate_time_reports", "modern_report",
                       "legacy_report"} =>
        /\ DOMAIN stage_out.city_time
             = {KeyOfCity(c) : c \in EarlierCities(GeocodedStream)}
        /\ \A c \in EarlierCities(GeocodedStream) :
              stage_out.city_time[KeyOfCity(c)]
                  = MinutesAfter(c, GeocodedStream, 1)

\* ---- C20 ----
\* The jump the pair (p, q) stands for.
JumpBetween(p, q) ==
    [from_location |-> LocationOf(GeocodeOf(p)),
     to_location |-> LocationOf(GeocodeOf(q)),
     distance_miles |-> Abs(q.latitude - p.latitude),
     duration_hours |-> q.timestamp - p.timestamp,
     timestamp |-> q.timestamp]

\* Whether the pair (p, q) is a jump by the claim's words: both resolved,
\* differing labels, more than 10 miles apart.
PairJumps(p, q, unresolved) ==
    /\ p \notin unresolved
    /\ q \notin unresolved
    /\ LocationOf(GeocodeOf(p)) # LocationOf(GeocodeOf(q))
    /\ Abs(q.latitude - p.latitude) > TenMiles

\* One jump for each adjacent pair of the stream that jumps, in order.
RECURSIVE JumpsOfAdjacentPairs(_, _, _)
JumpsOfAdjacentPairs(stream, i, unresolved) ==
    IF i >= Len(stream) THEN <<>>
    ELSE (IF PairJumps(stream[i], stream[i + 1], unresolved)
          THEN <<JumpBetween(stream[i], stream[i + 1])>> ELSE <<>>)
             \o JumpsOfAdjacentPairs(stream, i + 1, unresolved)

IsJumpStage == stage_op.name \in {"generate_time_reports", "modern_report"}

EntryInstants(entry) ==
    (IF Has(entry, "startTime")
     THEN {ToDatetimeUtc(Val(entry, "startTime"))} ELSE {})
      \cup (IF Has(entry, "endTime")
            THEN {ToDatetimeUtc(Val(entry, "endTime"))} ELSE {})
      \cup (IF Has(entry, "timestampMs")
            THEN {Val(entry, "timestampMs")} ELSE {})
      \cup (IF Has(entry, "startTime") /\ Has(entry, "timelinePath")
            THEN {ToDatetimeUtc(Val(entry, "startTime"))
                      + Val(entry, "timelinePath")[n].offset :
                          n \in 1..Len(Val(entry, "timelinePath"))}
            ELSE {})

\* The input has no records, or none with an instant or a written date
\* inside the requested range.
NoRecordInRange(entries, range) ==
    \A i \in 1..Len(entries) :
        /\ \A t \in EntryInstants(entries[i]) : ~InstantInRange(t, range)
        /\ Has(entries[i], "startTime") =>
              ~InRange(DateOf(Val(entries[i], "startTime").local), range)

\* A run that was neither cancelled nor thrown out of, on such an input.
IsNoDataRun ==
    /\ stage_op.name \in {"analyze_location_history", "process_location_file",
                          "process_file_run"}
    /\ stage_op.cancel_at = 0
    /\ ~stage_op.raises
    /\ NoRecordInRange(stage_in, stage_op.range)

\* What the run that ran returns on an input of EntryLists when cancelled at
\* an iteration or thrown out of; only process_location_file takes a
\* cancel_check, and analyze_location_history lets an exception through.
OtherEndings ==
    IF stage_op.name = "process_location_file"
    THEN {ProcessLocationFile(l, stage_op.range, c, r) :
              l \in {x \in EntryLists : x # <<>>}, c \in 1..MaxEntries,
              r \in BOOLEAN}
           \cup {ProcessLocationFile(stage_in, stage_op.range, 0, TRUE)}
    ELSE IF stage_op.name = "process_file_run"
    THEN {ProcessFileRun(stage_in, stage_op.range, TRUE)}
    ELSE {}

\* C18: when the input has no records or no record falls inside the
\* requested date range, the run (process_file, process_location_file of
\* the modern bridge, analyze_location_history) ends with a specific "no
\* data in range" error outcome: not a success result with empty output,
\* and an outcome that differs from what the run returns when cancelled and
\* when it fails for another reason.
C18_NoDataIsItsOwnError ==
    IsNoDataRun =>
        /\ stage_out.returned \notin {"dict", "success"}
        /\ \A other \in OtherEndings :
              <<other.returned, other.error>>
                  # <<stage_out.returned, stage_out.error>>

\* ---- C21 ----
\* C21: in the legacy jump pass no two recorded jump rows of one run have
\* the same pair of place labels, the pair taken as unordered: after A to B
\* neither a second A to B nor a B to A is recorded.
C21_NoPairOfLabelsTwice ==
    stage_op.name = "generate_city_jump_csv" =>
        \A m, n \in 1..Len(stage_out.rows) :
            m # n => {stage_out.rows[m].from, stage_out.rows[m].to}
                       # {stage_out.rows[n].from, stage_out.rows[n].to}

\* ---- C22 ----
\* The country a place label ends with.
CountryOfLabel(label) ==
    CHOOSE c \in {LocOf(lat).country : lat \in StopLatitudes} :
        \E lat \in StopLatitudes :
            LocOf(lat).country = c /\ PlaceLabel(LocOf(lat)) = label

\* C22: a jump between places in two different known countries, 6000 miles
\* and 14 hours apart, is classified as Flight for every raw activity label,
\* the labels of the trusted modes Train, Ferry and Walking and the labels
\* absent from the lookup table included.
C22_FarInternationalJumpIsFlight ==
    stage_op.name = "generate_city_jump_csv" =>
        \A n \in 1..Len(stage_out.rows) :
            LET row == stage_out.rows[n]
            IN  (/\ CountryOfLabel(row.from) # CountryOfLabel(row.to)
                 /\ row.distance >= 6000 * 14473
                 /\ row.duration = 14 * 60)
                    => row.mode = "Flight"

\* ---- C23 ----
\* The jump cache after a run, with the 5-decimal key of the single jump of
\* the input replaced by its 4-decimal key.
OnFallbackKey(cache, coords) ==
    LET a == <<coords[1][2], coords[1][3]>>
        b == <<coords[2][2], coords[2][3]>>
    IN  [k \in {JumpKeyFallback(a, b)} |-> cache[JumpKey(a, b)]]

\* The modes of the rows of a run of the jump pass.
ModesOf(rows) == [n \in 1..Len(rows) |-> rows[n].mode]

\* C23: the mode of a jump depends only on the jump's inputs and its water
\* classification: classifying the same jump again (same raw label, places,
\* distance, duration), with the water value now read from the jump cache
\* under the 5-decimal or the 4-decimal key instead of obtained by live
\* water checks, yields the same mode.
C23_SameModeFromCacheAsFromChecks ==
    (/\ stage_op.name = "generate_city_jump_csv"
     /\ stage_op.cancel_at = 0
     /\ Len(stage_in.coords) = 2
     /\ Len(stage_out.rows) = 1
     /\ stage_out.rows[1].branch = "miss")
        => /\ ModesOf(GenerateCityJumpCsv(stage_in.coords,
                                          stage_in.activities,
                                          stage_out.cache, stage_op.water,
                                          0).rows)
                = ModesOf(stage_out.rows)
           /\ ModesOf(GenerateCityJumpCsv(
                          stage_in.coords, stage_in.activities,
                          OnFallbackKey(stage_out.cache, stage_in.coords),
                          stage_op.water, 0).rows)
                = ModesOf(stage_out.rows)

\* ---- C24 ----
\* C24: no jump row written by the legacy classifier has mode Walking when
\* its distance exceeds 2 miles or its duration exceeds 0.5 hours, whatever
\* the raw label and whichever override branch produced the mode.
C24_NoLongWalk ==
    stage_op.name = "generate_city_jump_csv" =>
        \A n \in 1..Len(stage_out.rows) :
            stage_out.rows[n].mode = "Walking" =>
                /\ stage_out.rows[n].distance <= TwoMiles
                /\ stage_out.rows[n].duration <= HalfHour

\* A jump labelled walking, under 2 miles but an hour long, has been written
\* as Car.
C24_Witness ==
    /\ stage_op.name = "generate_city_jump_csv"
    /\ Len(stage_out.rows) = 1
    /\ stage_out.rows[1].raw_mode = "walking"
    /\ stage_out.rows[1].branch = "google"
    /\ stage_out.rows[1].distance <= TwoMiles
    /\ stage_out.rows[1].duration > HalfHour
    /\ stage_out.rows[1].mode = "Car"

\* ---- C30 ----
\* C30: in the legacy jump pass every recorded jump row describes an
\* adjacent pair of the stream: its from-place, start time and start
\* coordinates (which its distance is measured from) are those of the point
\* immediately before the point that gives its to-place, also for a jump
\* recorded after an earlier repeated (from, to) pair was suppressed.
C30_RowsDescribeAdjacentPairs ==
    stage_op.name = "generate_city_jump_csv" =>
        \A n \in 1..Len(stage_out.rows) :
            \E i \in 2..Len(stage_in.coords) :
                /\ stage_out.rows[n].to = PlaceLabel(LocOf(stage_in.coords[i][2]))
                /\ stage_out.rows[n].from
                     = PlaceLabel(LocOf(stage_in.coords[i - 1][2]))
                /\ stage_out.rows[n].date = stage_in.coords[i - 1][1]
                /\ stage_out.rows[n].distance
                     = Abs(stage_in.coords[i][2] - stage_in.coords[i - 1][2])

\* ---- C25 ----
\* C25: if the cancellation predicate returns true at any of its poll points
\* (parsing, geocoding, aggregation / jump generation), the run stops,
\* returns the cancelled outcome, and no output file (place-days CSV, jump
\* CSV, summary) written by this run exists.
C25_CancelledRunLeavesNoFile ==
    (/\ stage_op.name = "process_location_file"
     /\ stage_op.cancel_phase # "none")
        => /\ stage_out.returned = "None"
           /\ ~stage_out.place_days_csv
           /\ ~stage_out.jump_csv

\* ---- C26 ----
\* C26: a missing or corrupt cache file makes every cache load start with an
\* empty cache without raising, and a failing cache save (the file cannot
\* be written) is reported and does not abort the resolve call or the run,
\* for each load and save routine of the code: no resolve call ends by an
\* exception raised out of its cache save.
C26_FailedSaveDoesNotAbort ==
    ~(rpc = "raised" /\ saves > 0)

\* ---- C27 ----
\* C27: an analysis task reaches step 'complete' with status SUCCESS only if
\* the analyzer returned a result; when the analyzer returns no result (no
\* points in range, cancelled, or the analysis raised) the task ends with
\* status FAILURE and an error reason, never SUCCESS.
C27_SuccessOnlyWithResult ==
    stage_op.name = "analyze_in_background" =>
        /\ stage_out.status = "SUCCESS" => stage_out.result # "None"
        /\ stage_out.result = "None" =>
              stage_out.status = "FAILURE" /\ stage_out.step = "error"

\* ---- C28 ----
\* C28: every lookup of one coordinate increments exactly one of the plain
\* geocode counters (cache_hits, api_calls, errors) by exactly one, whatever
\* its outcome (cache hit, fallback-key hit, provider success, empty
\* response, HTTP error, request exception, missing API key): after the
\* reverse_geocode calls made so far the geocoding total equals their
\* number.
C28_OneCountPerLookup ==
    call_no = 0 =>
        stats.cache_hits + stats.api_calls + stats.errors = sync_no

\* ---- C29 ----
\* The sum of the entries of a ledger.
RECURSIVE LedgerSum(_)
LedgerSum(ledger) ==
    IF DOMAIN ledger = {} THEN 0
    ELSE LET k == CHOOSE x \in DOMAIN ledger : TRUE
         IN  ledger[k] + LedgerSum([x \in DOMAIN ledger \ {k} |-> ledger[x]])

\* The time from the first to the last point of the geocoded stream.
StreamSpan ==
    GeocodedStream[Len(GeocodedStream)].timestamp
        - GeocodedStream[1].timestamp

\* A ledger whose entries are non-negative and add up to the span.
AccountsForSpan(ledger) ==
    /\ LedgerSum(ledger) = StreamSpan
    /\ \A k \in DOMAIN ledger : ledger[k] >= 0

\* C29: for a chronologically ordered stream of at least two geocoded
\* points, the sum of all entries of the place time ledger equals the time
\* from the first point to the last point, and every ledger entry is
\* non-negative, for the by-city ledger and for the by-region ledger
\* (generate_time_reports, run_modern_analysis, legacy
\* process_location_file).
C29_LedgerAddsUpToSpan ==
    (/\ stage_op.name \in {"generate_time_reports", "modern_report",
                           "legacy_report", "legacy_report_state"}
     /\ Len(GeocodedStream) >= 2)
        => /\ AccountsForSpan(stage_out.city_time)
           /\ "state_time" \in DOMAIN stage_out =>
                 AccountsForSpan(stage_out.state_time)

\* generate_time_reports has run on three geocoded points and added both
\* intervals to one place; the by-state ledger has been filled too.
C29_Witness ==
    /\ stage_op.name = "generate_time_reports"
    /\ Len(GeocodedStream) = 3
    /\ Cardinality(DOMAIN stage_out.city_time) = 1
    /\ LedgerSum(stage_out.city_time) > 0
    /\ DOMAIN stage_out.state_time # {}

====
